---------------------------- MODULE Spec2Model ----------------------------
(***************************************************************************)
(* Customer Value Optimizer: strategic-matrix pipelines and NBO engine.    *)
(*                                                                         *)
(* Spec       the strategic-matrix pipelines (cvo_ml_indonesia_v21.py,     *)
(*            cvo_ml_indonesia.py, cvo_nbo_v30.py): clean_and_standardize, *)
(*            engineer_features (segment_customers),                       *)
(*            create_strategic_matrices.                                   *)
(*                                                                         *)
(* SpecSales  the Sales Matrix functions: assign_strategy                   *)
(*            (cvo_nbo_advanced_v4_2.py), analyze_strategy                  *)
(*            (cvo_integrated_pipeline.py), analyze_sales_matrix            *)
(*            (cvo_v5_pipeline.py), each applied to one customer.           *)
(*                                                                         *)
(* SpecScore  calculate_nbo_score_v4_2 applied to one company and one       *)
(*            product.                                                      *)
(*                                                                         *)
(* SpecNBO    process_data of cvo_nbo_advanced_v4_2.py for one company:     *)
(*            catalog processing, scoring, ranking, strategy.               *)
(*                                                                         *)
(* SpecClean  step 2 of process_data on the raw sheet:                     *)
(*            parse_bandwidth_smart and clean_tenure_smart applied to the  *)
(*            bandwidth and tenure columns.                                *)
(*                                                                         *)
(* SpecIngest the reading of the raw revenue and bandwidth columns:        *)
(*            revenue cleaning (cvo_nbo_v30.py, cvo_ml_engine.py) and the  *)
(*            bandwidth clusters of cvo_nbo_v30.py, cvo_v5_pipeline.py and *)
(*            cvo_nbo_advanced_v4_2.py.                                    *)
(*                                                                         *)
(* SpecPredict  train_models and generate_predictions of                   *)
(*            cvo_ml_indonesia_v21.py and cvo_nbo_v30.py on a frame of     *)
(*            feature rows; scores are kept multiplied by 200.             *)
(*                                                                         *)
(* SpecRun    one run after the other of a whole pipeline: loading of the  *)
(*            input files, processing, export_to_excel and export_to_json  *)
(*            (cvo_nbo_advanced_v4_2.py, cvo_nbo_v30.py).                  *)
(*                                                                         *)
(* SpecTrust  the Revenue x Tenure matrix: klasifikasi_tenure of           *)
(*            cvo_ml_indonesia.py and cvo_ml_indonesia_v21.py,             *)
(*            get_quadrant of cvo_v4_pipeline.py.                          *)
(*                                                                         *)
(* SpecClassify  SmartCustomerClassifier.classify of                       *)
(*            cvo_smart_classifier_v30.py applied to one customer.         *)
(*                                                                         *)
(* In Spec, bandwidth is a float number of Mbps in the source; here it is  *)
(* an integer number of kbps (Mbps(n) = n * 1000), so 0.5 Mbps is 500.     *)
(* Medians and quartiles are kept multiplied by 4 (pandas interpolates     *)
(* linearly between two neighbours, so 4 * quantile is an integer).        *)
(* Emoji prefixes of the labels are dropped; the label text is kept.       *)
(***************************************************************************)
EXTENDS Integers, Sequences, FiniteSets, TLC

VARIABLES
    variant,             \* which pipeline class runs: "v21", "indonesia", "nbo_v30"
    has_kategori,        \* the input has a 'kategori' / 'Kategori_Baru' column
    df,                  \* the data frame: a sequence of customer rows
    cluster_thresholds,  \* cluster label -> threshold bundle (a partial mapping)
    pc,                  \* the stage the pipeline has completed
    revenue,             \* Sales Matrix input: monthly revenue (Rp)
    bandwidth,           \* Sales Matrix input: bandwidth (Mbps)
    strategy_data,       \* Sales Matrix output: function, label, action
    company,             \* company_data of the NBO engine
    product,             \* the product handed to calculate_nbo_score_v4_2
    co_occurrence,       \* co_occurrence[p1][p2]: the pair counts
    total_companies,     \* number of unique companies
    score_factors,       \* the eight credits added to score, times total_companies
    score,               \* the returned score, times total_companies
    products,            \* the processed catalog
    top3,                \* the recommendations of the company
    strategy,            \* the (strategy, action) of the company
    recommendations,     \* the top-3 lists of the runs made so far
    upsell_model,        \* self.upsell_model: None or the fitted classifier
    crosssell_model,     \* self.crosssell_model: None or the fitted classifier
    clv_model,           \* self.clv_model: the fitted regressor
    files,               \* the file system: path -> what the file holds
    run                  \* the number of the run that is being made

matrix_vars == <<variant, has_kategori, df, cluster_thresholds, pc>>

sales_vars == <<revenue, bandwidth, strategy_data>>

score_vars == <<company, product, co_occurrence, total_companies, score_factors, score>>

nbo_vars == <<products, top3, strategy, recommendations>>

run_vars == <<upsell_model, crosssell_model, clv_model, files, run>>

vars == <<matrix_vars, sales_vars, score_vars, nbo_vars, run_vars>>

----------------------------------------------------------------------------
(* Bounds and input domains                                                *)

MaxCustomers == 2

Mbps(n) == n * 1000

RevDomain == {1, 2}

BwDomain == {0, 500, Mbps(5), Mbps(50), Mbps(200), Mbps(600), Mbps(6000)}

KategoriDomain == {"METRO ETHERNET", "IPVPN", "SMART HOME"}

Variants == {"v21", "indonesia", "nbo_v30"}

\* The raw bandwidth cell: its first number converted to Mbps, or no digits at all.
BwInputs ==
    {[digits |-> TRUE, mbps |-> v] : v \in BwDomain} \cup {[digits |-> FALSE, mbps |-> 0]}

RawRows == [pendapatan : RevDomain, bw : BwInputs, kategori : KategoriDomain]

RECURSIVE SeqsUpTo(_, _)
SeqsUpTo(S, n) ==
    IF n = 0 THEN {<<>>}
    ELSE LET shorter == SeqsUpTo(S, n - 1)
         IN  shorter \cup {Append(s, x) : s \in {t \in shorter : Len(t) = n - 1}, x \in S}

----------------------------------------------------------------------------
(* pandas helpers                                                          *)

RECURSIVE Insert(_, _)
Insert(s, x) ==
    IF s = <<>> THEN <<x>>
    ELSE IF x < Head(s) THEN <<x>> \o s
    ELSE <<Head(s)>> \o Insert(Tail(s), x)

RECURSIVE SortValues(_)
SortValues(s) == IF s = <<>> THEN <<>> ELSE Insert(SortValues(Tail(s)), Head(s))

\* 4 * Series.quantile(num / 4) with pandas' default linear interpolation:
\* position (n - 1) * num / 4 in the sorted values.
Quantile4(values, num) ==
    LET a == SortValues(values)
        p == (Len(a) - 1) * num
        k == p \div 4
        r == p % 4
    IN  IF r = 0 THEN 4 * a[k + 1]
        ELSE (4 - r) * a[k + 1] + r * a[k + 2]

Median4(values) == Quantile4(values, 2)

RECURSIVE SumSeq(_)
SumSeq(s) == IF s = <<>> THEN 0 ELSE Head(s) + SumSeq(Tail(s))

\* Series.mean() as the exact fraction <<sum, count>>.
Mean(values) == <<SumSeq(values), Len(values)>>

Column(rows, f) == [i \in 1..Len(rows) |-> rows[i][f]]

\* df[df['cluster_bandwidth'] == cluster]
RowsOfCluster(rows, cluster) ==
    LET InCluster(r) == r.cluster_bandwidth = cluster
    IN  SelectSeq(rows, InCluster)

\* df['cluster_bandwidth'].unique()
UniqueClusters(rows) == {rows[i].cluster_bandwidth : i \in 1..Len(rows)}

----------------------------------------------------------------------------
(* clean_and_standardize                                                   *)

\* convert_bw: no digits -> 0, otherwise the number converted to Mbps.
convert_bw(bw) == IF bw.digits THEN bw.mbps ELSE 0

\* parse_bandwidth_fix (cvo_nbo_v30): the value and the cluster it determines.
parse_bandwidth_fix(bw) ==
    IF ~bw.digits THEN <<0, "UNKNOWN">>
    ELSE LET mbps == bw.mbps
         IN  IF mbps = 0 THEN <<mbps, "NO_BANDWIDTH">>
             ELSE IF mbps < Mbps(1) THEN <<mbps, "ATM_IOT">>
             ELSE IF mbps <= Mbps(20) THEN <<mbps, "UMKM_SMALL">>
             ELSE IF mbps <= Mbps(500) THEN <<mbps, "CORPORATE">>
             ELSE <<mbps, "ENTERPRISE">>

\* kategori is "" when the input has no such column.
CleanRow(v, kat, raw) ==
    [pendapatan        |-> raw.pendapatan,
     bandwidth_mbps    |-> IF v = "nbo_v30" THEN parse_bandwidth_fix(raw.bw)[1]
                           ELSE convert_bw(raw.bw),
     kategori          |-> IF kat THEN raw.kategori ELSE "",
     cluster_bandwidth |-> IF v = "nbo_v30" THEN parse_bandwidth_fix(raw.bw)[2] ELSE "",
     exclude_upsell    |-> 0,
     exclude_reason    |-> "",
     kuadran           |-> "",
     strategi          |-> ""]

clean_and_standardize ==
    /\ pc = "loaded"
    /\ \E raw \in SeqsUpTo(RawRows, MaxCustomers) :
          df' = [i \in 1..Len(raw) |-> CleanRow(variant, has_kategori, raw[i])]
    /\ pc' = "cleaned"
    /\ UNCHANGED <<variant, has_kategori, cluster_thresholds>>
    /\ UNCHANGED <<sales_vars, score_vars, nbo_vars, run_vars>>

----------------------------------------------------------------------------
(* segment_customers / engineer_features                                   *)

\* The keywords of klasifikasi_produk that occur in each (upper-cased) category.
KeywordsIn(tipe) ==
    CASE tipe = "METRO ETHERNET" -> {"METRO"}
      [] tipe = "IPVPN"          -> {"VPN", "IPVPN"}
      [] OTHER                   -> {}

HighKeywords(v) ==
    IF v = "v21" THEN {"METRO", "NETWORK", "BACKBONE", "ISP", "TRANSMISI"}
    ELSE {"METRO", "NETWORK", "BACKBONE", "ISP"}

\* 'Mikro' of cvo_ml_indonesia is compared with an upper-cased string: it never
\* matches, and is left out.
LowKeywords(v) ==
    IF v = "v21" THEN {"VPN", "ATM", "IPVPN", "UMKM", "MIKRO", "KRENO"}
    ELSE {"VPN", "ATM", "IPVPN", "UMKM"}

klasifikasi_produk(v, tipe) ==
    IF KeywordsIn(tipe) \cap HighKeywords(v) # {} THEN "HIGH_BANDWIDTH_GROUP"
    ELSE IF KeywordsIn(tipe) \cap LowKeywords(v) # {} THEN "LOW_BANDWIDTH_GROUP"
    ELSE "MID_BANDWIDTH_GROUP"

klasifikasi_bandwidth(v, bw) ==
    IF v = "v21"
    THEN IF bw = 0 THEN "TIDAK_DIKETAHUI"
         ELSE IF bw < Mbps(10) THEN "LOW_BANDWIDTH_GROUP"
         ELSE IF bw <= Mbps(100) THEN "LOW_BANDWIDTH_GROUP"
         ELSE IF bw <= Mbps(500) THEN "MID_BANDWIDTH_GROUP"
         ELSE "HIGH_BANDWIDTH_GROUP"
    ELSE IF bw < Mbps(100) THEN "LOW_BANDWIDTH_GROUP"
         ELSE IF bw <= Mbps(500) THEN "MID_BANDWIDTH_GROUP"
         ELSE "HIGH_BANDWIDTH_GROUP"

ClusterOf(v, kat, r) ==
    IF kat THEN klasifikasi_produk(v, r.kategori)
    ELSE klasifikasi_bandwidth(v, r.bandwidth_mbps)

mask_atm(cluster, bw) == cluster = "LOW_BANDWIDTH_GROUP" /\ bw < Mbps(1)

mask_backbone(cluster, bw) == cluster = "HIGH_BANDWIDTH_GROUP" /\ bw > Mbps(5000)

\* The exclusion columns segment_customers sets for one row. cvo_ml_indonesia has
\* the ATM criterion only and no exclude_reason column (kept "" here).
ExclusionOf(v, cluster, bw) ==
    IF v = "v21"
    THEN IF mask_backbone(cluster, bw)
         THEN [exclude_upsell |-> 1, exclude_reason |-> "Backbone/ISP - Sudah optimal"]
         ELSE IF mask_atm(cluster, bw)
         THEN [exclude_upsell |-> 1,
               exclude_reason |-> "ATM/IoT - Tidak butuh upsell broadband"]
         ELSE [exclude_upsell |-> 0, exclude_reason |-> ""]
    ELSE [exclude_upsell |-> IF mask_atm(cluster, bw) THEN 1 ELSE 0,
          exclude_reason |-> ""]

segment_customers(v, kat, rows) ==
    [i \in 1..Len(rows) |->
        LET cluster == ClusterOf(v, kat, rows[i])
            excl    == ExclusionOf(v, cluster, rows[i].bandwidth_mbps)
        IN  [rows[i] EXCEPT !.cluster_bandwidth = cluster,
                            !.exclude_upsell    = excl.exclude_upsell,
                            !.exclude_reason    = excl.exclude_reason]]

\* cvo_nbo_v30.engineer_features has no segmentation step: the cluster was set
\* while parsing.
engineer_features ==
    /\ pc = "cleaned"
    /\ df' = IF variant = "nbo_v30" THEN df
             ELSE segment_customers(variant, has_kategori, df)
    /\ pc' = "features"
    /\ UNCHANGED <<variant, has_kategori, cluster_thresholds>>
    /\ UNCHANGED <<sales_vars, score_vars, nbo_vars, run_vars>>

----------------------------------------------------------------------------
(* create_strategic_matrices: per-cluster thresholds                        *)

\* The threshold bundle of one cluster, from the rows of that cluster.
Bundle(v, cluster_data) ==
    IF v = "v21"
    THEN [median_pendapatan |-> Median4(Column(cluster_data, "pendapatan")),
          median_bandwidth  |-> Median4(Column(cluster_data, "bandwidth_mbps")),
          q75_bandwidth     |-> Quantile4(Column(cluster_data, "bandwidth_mbps"), 3),
          q25_pendapatan    |-> Quantile4(Column(cluster_data, "pendapatan"), 1),
          avg_pendapatan    |-> Mean(Column(cluster_data, "pendapatan"))]
    ELSE IF v = "indonesia"
    THEN [median_pendapatan |-> Median4(Column(cluster_data, "pendapatan")),
          median_bandwidth  |-> Median4(Column(cluster_data, "bandwidth_mbps")),
          q75_bandwidth     |-> Quantile4(Column(cluster_data, "bandwidth_mbps"), 3),
          q25_pendapatan    |-> Quantile4(Column(cluster_data, "pendapatan"), 1)]
    ELSE [median_pendapatan |-> Median4(Column(cluster_data, "pendapatan")),
          median_bandwidth  |-> Median4(Column(cluster_data, "bandwidth_mbps")),
          q75_pendapatan    |-> Quantile4(Column(cluster_data, "pendapatan"), 3),
          q25_pendapatan    |-> Quantile4(Column(cluster_data, "pendapatan"), 1)]

\* Mutant: the statistics are taken over the whole frame.
ClusterData_global(rows, cluster) == rows

\* The rows the loop body selects for `cluster`.
ClusterData(rows, cluster) == RowsOfCluster(rows, cluster)

\* The clusters that get an entry: v21 skips TIDAK_DIKETAHUI; every variant's
\* clusters come from unique(), so each has at least one row.
ThresholdClusters(v, rows) ==
    {c \in UniqueClusters(rows) :
        /\ ~(v = "v21" /\ c = "TIDAK_DIKETAHUI")
        /\ Len(ClusterData(rows, c)) > 0}

ComputeThresholds(v, rows) ==
    [c \in ThresholdClusters(v, rows) |-> Bundle(v, ClusterData(rows, c))]

----------------------------------------------------------------------------
(* create_strategic_matrices: the quadrant classifiers                      *)

\* The cluster branches of klasifikasi_bw (cvo_ml_indonesia_v21), reached by a
\* customer that is not excluded.
kuadran_v21_sniper_as_inkubator(cluster, pendapatan_tinggi, bandwidth_tinggi) ==
    IF cluster = "LOW_BANDWIDTH_GROUP"
    THEN IF pendapatan_tinggi
         THEN <<"UMKM_POTENSIAL", "CROSS-SELL - Solusi Digital UMKM (Wifi, Cloud)">>
         ELSE <<"UMKM_PEMULA", "EDUKASI - Digitalisasi Bisnis">>
    ELSE IF pendapatan_tinggi /\ bandwidth_tinggi
         THEN <<"PELANGGAN_BINTANG", "PERTAHANKAN - Layanan Premium & Dedicated Support">>
         ELSE IF pendapatan_tinggi
         THEN <<"AREA_RISIKO", "CROSS-SELL - Smart Home, PV Rooftop, EV Charging">>
         ELSE <<"INKUBATOR", "EDUKASI - Demo Produk & Onboarding">>

kuadran_v21(cluster, pendapatan_tinggi, bandwidth_tinggi) ==
    IF cluster = "LOW_BANDWIDTH_GROUP"
    THEN IF pendapatan_tinggi
         THEN <<"UMKM_POTENSIAL", "CROSS-SELL - Solusi Digital UMKM (Wifi, Cloud)">>
         ELSE <<"UMKM_PEMULA", "EDUKASI - Digitalisasi Bisnis">>
    ELSE IF cluster = "HIGH_BANDWIDTH_GROUP"
    THEN IF pendapatan_tinggi /\ bandwidth_tinggi
         THEN <<"ENTERPRISE_BINTANG", "PERTAHANKAN - Kontrak Jangka Panjang & SLA">>
         ELSE IF pendapatan_tinggi
         THEN <<"BACKBONE_OPTIMAL", "CROSS-SELL - Managed Services & Security">>
         ELSE IF bandwidth_tinggi
         THEN <<"ISP_POTENSI", "RENEGOSIASI - Harga Kompetitif & Bundling">>
         ELSE <<"ENTERPRISE_BARU", "KONSTRUKSI - Bangun Relasi & Trust">>
    ELSE IF pendapatan_tinggi /\ bandwidth_tinggi
         THEN <<"PELANGGAN_BINTANG", "PERTAHANKAN - Layanan Premium & Dedicated Support">>
         ELSE IF pendapatan_tinggi /\ ~bandwidth_tinggi
         THEN <<"AREA_RISIKO", "CROSS-SELL - Smart Home, PV Rooftop, EV Charging">>
         ELSE IF ~pendapatan_tinggi /\ bandwidth_tinggi
         THEN <<"ZONA_SNIPER", "UPSELL - Upgrade Bandwidth + Managed Services">>
         ELSE <<"INKUBATOR", "EDUKASI - Demo Produk & Onboarding">>

\* Mutant: a missing entry is replaced by zero thresholds.
klasifikasi_bw_v21_zero_thresholds(row, thresholds) ==
    LET cluster == row.cluster_bandwidth
        thresh == IF cluster \in DOMAIN thresholds THEN thresholds[cluster]
                  ELSE [median_pendapatan |-> 0, median_bandwidth |-> 0]
    IN  IF row.exclude_upsell = 1 THEN <<"DIKECUALIKAN", row.exclude_reason>>
        ELSE kuadran_v21(cluster, 4 * row.pendapatan >= thresh.median_pendapatan,
                         4 * row.bandwidth_mbps >= thresh.median_bandwidth)

\* Mutant: the exclusion flag is not looked at.
klasifikasi_bw_v21_no_exclusion(row, thresholds) ==
    LET cluster == row.cluster_bandwidth
    IN  IF cluster = "TIDAK_DIKETAHUI" \/ cluster \notin DOMAIN thresholds
        THEN <<"BELUM_TERKATEGORI", "PERLU_ANALISIS - Data tidak lengkap">>
        ELSE kuadran_v21(cluster,
                         4 * row.pendapatan >= thresholds[cluster].median_pendapatan,
                         4 * row.bandwidth_mbps >= thresholds[cluster].median_bandwidth)

\* klasifikasi_bw of cvo_ml_indonesia_v21.
klasifikasi_bw_v21(row, thresholds) ==
    LET cluster == row.cluster_bandwidth
    IN  IF cluster = "TIDAK_DIKETAHUI" \/ cluster \notin DOMAIN thresholds
        THEN <<"BELUM_TERKATEGORI", "PERLU_ANALISIS - Data tidak lengkap">>
        ELSE
        LET thresh == thresholds[cluster]
            pendapatan_tinggi == 4 * row.pendapatan >= thresh.median_pendapatan
            bandwidth_tinggi  == 4 * row.bandwidth_mbps >= thresh.median_bandwidth
        IN  IF row.exclude_upsell = 1 THEN <<"DIKECUALIKAN", row.exclude_reason>>
            ELSE kuadran_v21(cluster, pendapatan_tinggi, bandwidth_tinggi)

\* klasifikasi_bw of cvo_ml_indonesia: thresholds[cluster] is read unguarded
\* (every cluster of the frame has an entry there).
klasifikasi_bw_indonesia(row, thresholds) ==
    LET cluster == row.cluster_bandwidth
        thresh == thresholds[cluster]
        pendapatan_tinggi == 4 * row.pendapatan >= thresh.median_pendapatan
        bandwidth_tinggi  == 4 * row.bandwidth_mbps >= thresh.median_bandwidth
    IN  IF row.exclude_upsell = 1
        THEN <<"DIKECUALIKAN", "ATM/UMKM - Tidak Perlu Upsell Broadband">>
        ELSE IF cluster = "LOW_BANDWIDTH_GROUP"
        THEN IF pendapatan_tinggi
             THEN <<"UMKM POTENSIAL", "CROSS-SELL - Solusi Digital UMKM">>
             ELSE <<"UMKM PEMULA", "EDUKASI - Digitalisasi Bisnis">>
        ELSE IF cluster = "HIGH_BANDWIDTH_GROUP"
        THEN IF pendapatan_tinggi /\ bandwidth_tinggi
             THEN <<"ENTERPRISE BINTANG", "PERTAHANKAN - Kontrak Jangka Panjang">>
             ELSE IF pendapatan_tinggi
             THEN <<"BACKBONE OPTIMASI", "EFISIENSI - Optimasi Utilisasi">>
             ELSE IF bandwidth_tinggi
             THEN <<"ISP POTENSI", "RENEGOSIASI - Harga Kompetitif">>
             ELSE <<"ENTERPRISE BARU", "KONSTRUKSI - Bangun Relasi">>
        ELSE IF pendapatan_tinggi /\ bandwidth_tinggi
             THEN <<"PELANGGAN BINTANG", "PERTAHANKAN - Layanan Premium">>
             ELSE IF pendapatan_tinggi /\ ~bandwidth_tinggi
             THEN <<"AREA RISIKO", "CROSS-SELL - Produk Digital (Smart Home, PV, EV)">>
             ELSE IF ~pendapatan_tinggi /\ bandwidth_tinggi
             THEN <<"ZONA SNIPER", "UPSELL - Naikkan Bandwidth & Harga">>
             ELSE <<"INKUBATOR", "EDUKASI - Bangun Relasi & Pendidikan Produk">>

\* cluster_thresholds.get(cluster, {}).get(field, 0)
ThreshGet(thresholds, cluster, field) ==
    IF cluster \in DOMAIN thresholds THEN thresholds[cluster][field] ELSE 0

\* classify_customer of cvo_nbo_v30.
classify_customer(row, thresholds) ==
    LET cluster == row.cluster_bandwidth
        high_rev == 4 * row.pendapatan >= ThreshGet(thresholds, cluster, "median_pendapatan")
        high_bw  == 4 * row.bandwidth_mbps >= ThreshGet(thresholds, cluster, "median_bandwidth")
    IN  IF cluster = "NO_BANDWIDTH"
        THEN IF high_rev
             THEN <<"NON-BW HIGH VALUE", "CROSS-SELL - Add Connectivity or Digital Solutions">>
             ELSE <<"NON-BW ENTRY", "EDUKASI - Introduce Value-Added Services">>
        ELSE IF cluster = "ATM_IOT"
        THEN <<"ATM/IoT", "MAINTAIN - Ensure Reliability, No BW Upsell Needed">>
        ELSE IF cluster = "UMKM_SMALL"
        THEN IF high_rev
             THEN <<"UMKM POTENSIAL", "UPSELL - Upgrade to Corporate Package">>
             ELSE <<"UMKM PEMULA", "EDUKASI - Digital Business Solutions">>
        ELSE IF cluster = "CORPORATE"
        THEN IF high_rev /\ high_bw
             THEN <<"CORPORATE BINTANG", "PERTAHANKAN - Premium Support & Bundle">>
             ELSE IF high_rev /\ ~high_bw
             THEN <<"CORPORATE RISIKO", "CROSS-SELL - Smart Solutions, PV, EV">>
             ELSE IF ~high_rev /\ high_bw
             THEN <<"CORPORATE SNIPER", "UPSELL - Increase Bandwidth & Add Services">>
             ELSE <<"CORPORATE PEMULA", "EDUKASI - Demo & Onboarding">>
        ELSE IF cluster = "ENTERPRISE"
        THEN IF high_rev
             THEN <<"ENTERPRISE BINTANG", "PERTAHANKAN - SLA Premium & Consultative">>
             ELSE <<"ENTERPRISE POTENSI", "OPTIMIZE - Efficiency & Cost Management">>
        ELSE <<"UNKNOWN", "ANALYZE">>

Classify(v, row, thresholds) ==
    IF v = "v21" THEN klasifikasi_bw_v21(row, thresholds)
    ELSE IF v = "indonesia" THEN klasifikasi_bw_indonesia(row, thresholds)
    ELSE classify_customer(row, thresholds)

create_strategic_matrices ==
    /\ pc = "features"
    /\ LET thresholds == ComputeThresholds(variant, df)
       IN  /\ cluster_thresholds' = thresholds
           \* cvo_ml_indonesia goes on with klasifikasi_tenure, which reads
           \* self.thresholds['median_pendapatan'] (the key is under 'global'):
           \* the first row raises KeyError before self.df_features is set.
           \* What the second matrix adds to a row is left to SpecTrust.
           /\ IF variant = "indonesia" /\ df # <<>>
              THEN df' = df /\ pc' = "KeyError"
              ELSE /\ df' = [i \in 1..Len(df) |->
                        LET hasil == Classify(variant, df[i], thresholds)
                        IN  [df[i] EXCEPT !.kuadran = hasil[1], !.strategi = hasil[2]]]
                   /\ pc' = "matrices"
    /\ UNCHANGED <<variant, has_kategori>>
    /\ UNCHANGED <<sales_vars, score_vars, nbo_vars, run_vars>>

----------------------------------------------------------------------------
(* The strategic-matrix pipeline                                            *)

\* The variables of the other specifications, left untouched.
SalesUnused ==
    /\ revenue = 0
    /\ bandwidth = 0
    /\ strategy_data = <<>>

ScoreUnused ==
    /\ company = <<>>
    /\ product = <<>>
    /\ co_occurrence = <<>>
    /\ total_companies = 0
    /\ score_factors = <<>>
    /\ score = 0

NboUnused ==
    /\ products = <<>>
    /\ top3 = <<>>
    /\ strategy = <<>>
    /\ recommendations = <<>>

RunUnused ==
    /\ upsell_model = <<>>
    /\ crosssell_model = <<>>
    /\ clv_model = <<>>
    /\ files = <<>>
    /\ run = 0

MatrixUnused ==
    /\ variant = ""
    /\ has_kategori = FALSE
    /\ df = <<>>
    /\ cluster_thresholds = <<>>

\* load_data has read the file; which columns it has is a property of the input.
Init ==
    /\ variant \in Variants
    /\ has_kategori \in BOOLEAN
    /\ variant = "nbo_v30" => has_kategori = FALSE
    /\ df = <<>>
    /\ cluster_thresholds = <<>>
    /\ pc = "loaded"
    /\ SalesUnused /\ ScoreUnused /\ NboUnused /\ RunUnused

Next ==
    \/ clean_and_standardize
    \/ engineer_features
    \/ create_strategic_matrices

Spec == Init /\ [][Next]_vars

----------------------------------------------------------------------------
(* Properties of the strategic-matrix pipeline                              *)

Rows == 1..Len(df)

Populated(i) == df[i].cluster_bandwidth \in DOMAIN cluster_thresholds

HighRevenue(i) ==
    4 * df[i].pendapatan >= cluster_thresholds[df[i].cluster_bandwidth].median_pendapatan

HighBandwidth(i) ==
    4 * df[i].bandwidth_mbps >= cluster_thresholds[df[i].cluster_bandwidth].median_bandwidth

\* A row as it stands after segmentation, built from one raw input row.
SegmentedRows ==
    {IF variant = "nbo_v30" THEN CleanRow(variant, has_kategori, raw)
     ELSE segment_customers(variant, has_kategori,
                            <<CleanRow(variant, has_kategori, raw)>>)[1] : raw \in RawRows}

RemoveAt(s, i) == [k \in 1..(Len(s) - 1) |-> IF k < i THEN s[k] ELSE s[k + 1]]

SwapAt(s, i, j) == [s EXCEPT ![i] = s[j], ![j] = s[i]]

\* The frames that differ from df in rows outside cluster A only: one row of
\* another cluster added, removed or duplicated, or two rows exchanged.
EditsOutside(A) ==
    {Append(df, r) : r \in {x \in SegmentedRows : x.cluster_bandwidth # A}}
    \cup {RemoveAt(df, i) : i \in {k \in Rows : df[k].cluster_bandwidth # A}}
    \cup {Append(df, df[i]) : i \in {k \in Rows : df[k].cluster_bandwidth # A}}
    \cup {SwapAt(df, i, j) : i \in Rows, j \in Rows}

\* C1: the threshold bundle of a cluster A depends only on the rows whose
\* cluster is A: adding, removing, duplicating rows of other clusters, or
\* reordering the frame, leaves A's bundle as it was computed.
C1_ThresholdsOnlyFromOwnCluster ==
    pc = "matrices" =>
        \A A \in DOMAIN cluster_thresholds :
            \A other \in EditsOutside(A) :
                /\ A \in DOMAIN ComputeThresholds(variant, other)
                /\ ComputeThresholds(variant, other)[A] = cluster_thresholds[A]

\* Thresholds were computed for two populated clusters.
C1_Witness ==
    /\ pc = "matrices"
    /\ \E i \in Rows, j \in Rows :
          /\ df[i].cluster_bandwidth # df[j].cluster_bandwidth
          /\ Populated(i) /\ Populated(j)
          /\ df[i].pendapatan # df[j].pendapatan
          /\ df[i].bandwidth_mbps # df[j].bandwidth_mbps

\* C2: a customer whose cluster has no threshold entry gets the explicit
\* uncategorized / needs-analysis label (never a label computed from zero
\* thresholds).
C2_MissingEntryIsUncategorized ==
    pc = "matrices" =>
        \A i \in Rows :
            ~Populated(i) =>
                /\ df[i].kuadran = "BELUM_TERKATEGORI"
                /\ df[i].strategi = "PERLU_ANALISIS - Data tidak lengkap"

\* A classified customer whose cluster has no threshold entry.
C2_Witness ==
    /\ pc = "matrices"
    /\ \E i \in Rows : ~Populated(i) /\ df[i].kuadran = "BELUM_TERKATEGORI"

ExclusionCriterion(i) ==
    \/ df[i].cluster_bandwidth = "LOW_BANDWIDTH_GROUP" /\ df[i].bandwidth_mbps < Mbps(1)
    \/ df[i].cluster_bandwidth = "HIGH_BANDWIDTH_GROUP" /\ df[i].bandwidth_mbps > Mbps(5000)

\* C3: in every variant with an exclusion step, exclude_upsell = 1 exactly for
\* (a) lowest cluster and bandwidth < 1 Mbps or (b) highest cluster and
\* bandwidth > 5000 Mbps, 0 otherwise, and a flagged customer has a non-empty
\* exclusion reason.
C3_ExclusionRule ==
    (pc \in {"features", "matrices"} /\ variant \in {"v21", "indonesia"}) =>
        \A i \in Rows :
            /\ df[i].exclude_upsell = (IF ExclusionCriterion(i) THEN 1 ELSE 0)
            /\ df[i].exclude_upsell = 1 => df[i].exclude_reason # ""

ExclusionText(i) ==
    IF variant = "v21" THEN "ATM/IoT - Tidak butuh upsell broadband"
    ELSE "ATM/UMKM - Tidak Perlu Upsell Broadband"

\* C4: a customer of the lowest cluster with bandwidth < 1 Mbps is classified
\* into the Excluded quadrant with the exclusion reason as strategy text,
\* whatever its revenue and the thresholds of its cluster.
C4_LowTierBelowOneMbpsExcluded ==
    (pc = "matrices" /\ variant \in {"v21", "indonesia"}) =>
        \A i \in Rows :
            (df[i].cluster_bandwidth = "LOW_BANDWIDTH_GROUP"
                /\ df[i].bandwidth_mbps < Mbps(1)) =>
                /\ df[i].kuadran = "DIKECUALIKAN"
                /\ df[i].strategi = ExclusionText(i)
                /\ variant = "v21" => df[i].strategi = df[i].exclude_reason

\* An excluded low-cluster customer whose revenue is high for its cluster, next
\* to a low-cluster customer that is not excluded.
C4_Witness ==
    /\ pc = "matrices"
    /\ variant = "v21"
    /\ \E i \in Rows, j \in Rows :
          /\ df[i].cluster_bandwidth = "LOW_BANDWIDTH_GROUP"
          /\ df[i].bandwidth_mbps < Mbps(1)
          /\ HighRevenue(i)
          /\ df[i].kuadran = "DIKECUALIKAN"
          /\ df[j].cluster_bandwidth = "LOW_BANDWIDTH_GROUP"
          /\ df[j].kuadran = "UMKM_PEMULA"

\* The customers the quadrant branches classify.
Quadranted(i) == Populated(i) /\ df[i].exclude_upsell = 0

\* Any further non-excluded customer of cluster c, classified against the
\* thresholds of this run.
Probes(c) == {r \in SegmentedRows : r.cluster_bandwidth = c /\ r.exclude_upsell = 0}

ProbeLabel(r) == Classify(variant, r, cluster_thresholds)

ProbeHighRevenue(r) ==
    4 * r.pendapatan >= cluster_thresholds[r.cluster_bandwidth].median_pendapatan

ProbeHighBandwidth(r) ==
    4 * r.bandwidth_mbps >= cluster_thresholds[r.cluster_bandwidth].median_bandwidth

SamePair(i, r) ==
    HighRevenue(i) = ProbeHighRevenue(r) /\ HighBandwidth(i) = ProbeHighBandwidth(r)

FourWayCluster(c) ==
    IF variant = "nbo_v30" THEN c = "CORPORATE"
    ELSE c \in {"MID_BANDWIDTH_GROUP", "HIGH_BANDWIDTH_GROUP"}

OneLabelCluster(c) == variant = "nbo_v30" /\ c \in {"ATM_IOT", "UNKNOWN"}

\* C5 as stated: within each cluster the four (high_revenue, high_bandwidth)
\* pairs map to four pairwise distinct labels (and equal pairs to one label).
C5_FourDistinctLabelsEveryCluster ==
    pc = "matrices" =>
        \A i \in Rows :
            Quadranted(i) =>
                \A r \in Probes(df[i].cluster_bandwidth) :
                    (df[i].kuadran = ProbeLabel(r)[1]) <=> SamePair(i, r)

\* C5 amended: every non-excluded customer of a populated cluster gets one
\* label, a function of its cluster and its (high_revenue, high_bandwidth)
\* pair; the four pairs have four distinct labels in the mid and high clusters
\* of klasifikasi_bw and in CORPORATE of classify_customer; in the other
\* clusters the label depends on high_revenue alone, and ATM_IOT and UNKNOWN
\* carry a single label.
C5_QuadrantLabels ==
    pc = "matrices" =>
        \A i \in Rows :
            Quadranted(i) =>
                /\ df[i].kuadran # "" /\ df[i].strategi # ""
                /\ \A r \in Probes(df[i].cluster_bandwidth) :
                      /\ (df[i].kuadran = ProbeLabel(r)[1])
                            <=> (df[i].strategi = ProbeLabel(r)[2])
                      /\ (df[i].kuadran = ProbeLabel(r)[1]) <=>
                            IF FourWayCluster(df[i].cluster_bandwidth) THEN SamePair(i, r)
                            ELSE IF OneLabelCluster(df[i].cluster_bandwidth) THEN TRUE
                            ELSE HighRevenue(i) = ProbeHighRevenue(r)

\* A four-way cluster whose customers cover two pairs, with the other two pairs
\* open to a further customer: low revenue with high and with low bandwidth.
C5_Witness ==
    /\ pc = "matrices"
    /\ \E i \in Rows, j \in Rows :
          /\ Quadranted(i) /\ Quadranted(j)
          /\ df[i].cluster_bandwidth = df[j].cluster_bandwidth
          /\ FourWayCluster(df[i].cluster_bandwidth)
          /\ HighRevenue(i) /\ HighBandwidth(i)
          /\ ~HighRevenue(j) /\ ~HighBandwidth(j)
          /\ df[i].kuadran # df[j].kuadran
          /\ \E r \in Probes(df[i].cluster_bandwidth) :
                ~ProbeHighRevenue(r) /\ ProbeHighBandwidth(r)
          /\ \E r \in Probes(df[i].cluster_bandwidth) :
                ProbeHighRevenue(r) /\ ~ProbeHighBandwidth(r)

----------------------------------------------------------------------------
(* The Sales Matrix functions                                               *)

SalesRevenueDomain == {0, 1999999, 2000000, 3499999, 3500000, 5000000}

SalesBandwidthDomain == {0, 5, 9, 10, 50, 99, 100, 101, 499, 500, 1000}

rev_threshold == 3500000

bw_threshold == 10

\* Mutant: the Risk and Sniper branches exchanged.
assign_strategy_risk_sniper_swapped(rev, bw) ==
    IF rev >= rev_threshold /\ bw >= bw_threshold THEN <<"Star", "RETAIN">>
    ELSE IF rev >= rev_threshold /\ bw < bw_threshold THEN <<"Sniper", "UPSELL">>
    ELSE IF rev < rev_threshold /\ bw >= bw_threshold THEN <<"Risk", "CROSS-SELL">>
    ELSE <<"Incubator", "AUTOMATE">>

\* assign_strategy(company), with revenue = company['revenue'] and
\* bandwidth = company['bandwidth_clean'][0].
assign_strategy(rev, bw) ==
    IF rev >= rev_threshold /\ bw >= bw_threshold THEN <<"Star", "RETAIN">>
    ELSE IF rev >= rev_threshold /\ bw < bw_threshold THEN <<"Risk", "CROSS-SELL">>
    ELSE IF rev < rev_threshold /\ bw >= bw_threshold THEN <<"Sniper", "UPSELL">>
    ELSE <<"Incubator", "AUTOMATE">>

create_bandwidth_segment(bw) ==
    IF bw < 10 THEN "Low"
    ELSE IF bw <= 100 THEN "Mid"
    ELSE "High"

analyze_strategy(rev, bandwidth_segment) ==
    LET rev_high == rev >= 2000000
        bw_high  == bandwidth_segment = "High"
    IN  IF rev_high /\ bw_high THEN <<"Star", "Retention">>
        ELSE IF rev_high /\ ~bw_high THEN <<"Risk", "Cross-sell">>
        ELSE IF ~rev_high /\ bw_high THEN <<"Sniper", "Upsell">>
        ELSE <<"Incubator", "Automation">>

clean_bandwidth(bandwidth_value) ==
    IF bandwidth_value = 0 THEN "NO_BANDWIDTH"
    ELSE IF bandwidth_value < 10 THEN "MICRO"
    ELSE IF bandwidth_value < 100 THEN "LOW"
    ELSE IF bandwidth_value < 500 THEN "MID"
    ELSE "HIGH"

analyze_sales_matrix(rev, bandwidth_cluster) ==
    LET rev_high == rev >= 2000000
        bw_high  == bandwidth_cluster \in {"MID", "HIGH"}
    IN  IF rev_high /\ bw_high THEN <<"STAR_CLIENTS", "RETENTION">>
        ELSE IF rev_high /\ ~bw_high THEN <<"RISK_AREA", "CROSS_SELL">>
        ELSE IF ~rev_high /\ bw_high THEN <<"SNIPER_ZONE", "UPSELL">>
        ELSE <<"INCUBATOR", "AUTOMATION">>

StrategyData(fn, result) == [fn |-> fn, label |-> result[1], action |-> result[2]]

\* process_data (cvo_nbo_advanced_v4_2): strategy, action = assign_strategy(company_data)
apply_assign_strategy ==
    /\ strategy_data = <<>>
    /\ strategy_data' = StrategyData("assign_strategy", assign_strategy(revenue, bandwidth))
    /\ UNCHANGED <<revenue, bandwidth, matrix_vars, score_vars, nbo_vars, run_vars>>

\* process_data (cvo_integrated_pipeline): the segment, then the strategy of the row.
apply_analyze_strategy ==
    /\ strategy_data = <<>>
    /\ strategy_data' = StrategyData("analyze_strategy",
                            analyze_strategy(revenue, create_bandwidth_segment(bandwidth)))
    /\ UNCHANGED <<revenue, bandwidth, matrix_vars, score_vars, nbo_vars, run_vars>>

\* run (cvo_v5_pipeline): the bandwidth cluster, then the sales matrix of the row.
apply_analyze_sales_matrix ==
    /\ strategy_data = <<>>
    /\ strategy_data' = StrategyData("analyze_sales_matrix",
                            analyze_sales_matrix(revenue, clean_bandwidth(bandwidth)))
    /\ UNCHANGED <<revenue, bandwidth, matrix_vars, score_vars, nbo_vars, run_vars>>

InitSales ==
    /\ revenue \in SalesRevenueDomain
    /\ bandwidth \in SalesBandwidthDomain
    /\ strategy_data = <<>>
    /\ MatrixUnused /\ pc = "sales"
    /\ ScoreUnused /\ NboUnused /\ RunUnused

NextSales ==
    \/ apply_assign_strategy
    \/ apply_analyze_strategy
    \/ apply_analyze_sales_matrix

SpecSales == InitSales /\ [][NextSales]_vars

----------------------------------------------------------------------------
(* Properties of the Sales Matrix functions                                 *)

\* The pair (high_revenue, high_bandwidth) each function decides for its input.
SalesHighRevenue ==
    IF strategy_data.fn = "assign_strategy" THEN revenue >= 3500000
    ELSE revenue >= 2000000

SalesHighBandwidth ==
    IF strategy_data.fn = "assign_strategy" THEN bandwidth >= 10
    ELSE IF strategy_data.fn = "analyze_strategy" THEN bandwidth > 100
    ELSE bandwidth >= 100

\* The quadrant a label names, and the action family an action text names.
QuadrantOfLabel(label) ==
    CASE label \in {"Star", "STAR_CLIENTS"}     -> "Star"
      [] label \in {"Risk", "RISK_AREA"}        -> "Risk"
      [] label \in {"Sniper", "SNIPER_ZONE"}    -> "Sniper"
      [] label \in {"Incubator", "INCUBATOR"}   -> "Incubator"
      [] OTHER                                  -> "?"

FamilyOfAction(action) ==
    CASE action \in {"RETAIN", "Retention", "RETENTION"}       -> "retention"
      [] action \in {"CROSS-SELL", "Cross-sell", "CROSS_SELL"} -> "cross-sell"
      [] action \in {"UPSELL", "Upsell"}                       -> "upsell"
      [] action \in {"AUTOMATE", "Automation", "AUTOMATION"}   -> "automate"
      [] OTHER                                                 -> "?"

SalesMatrix(high_revenue, high_bandwidth) ==
    IF high_revenue /\ high_bandwidth THEN <<"Star", "retention">>
    ELSE IF high_revenue THEN <<"Risk", "cross-sell">>
    ELSE IF high_bandwidth THEN <<"Sniper", "upsell">>
    ELSE <<"Incubator", "automate">>

\* C6: in assign_strategy, analyze_strategy and analyze_sales_matrix the pair
\* (high_revenue, high_bandwidth) maps to Star / retention, Risk / cross-sell,
\* Sniper / upsell, Incubator / automate, for every input.
C6_SalesMatrixMapping ==
    strategy_data # <<>> =>
        <<QuadrantOfLabel(strategy_data.label), FamilyOfAction(strategy_data.action)>>
            = SalesMatrix(SalesHighRevenue, SalesHighBandwidth)

\* assign_strategy has classified a high-revenue, low-bandwidth customer.
C6_Witness ==
    /\ strategy_data # <<>>
    /\ strategy_data.fn = "assign_strategy"
    /\ SalesHighRevenue /\ ~SalesHighBandwidth
    /\ strategy_data.label = "Risk"

----------------------------------------------------------------------------
(* The NBO scoring engine: calculate_nbo_score_v4_2                          *)
(*                                                                         *)
(* confidence = count / total_companies is a fraction: every credit and the *)
(* score are kept multiplied by total_companies, so they stay integers.     *)

MaxCompanies == 2

TierDomain == {"DI-TS", "UNKNOWN"}

CompanyCategoryDomain == {"Connectivity", "Digital Infrastructure"}

ProductCategoryDomain == {"Connectivity", "Technology Services"}

BandwidthCleanDomain == {<<0, "IP-Only">>, <<5, "Connectivity">>, <<20, "Connectivity">>}

MinBandwidthDomain == {0, 10, 20}

IndustryDomain == {"GOVERNMENT", "MANUFACTURE"}

TargetIndustriesDomain == {{}, {"GOVERNMENT"}}

ProductNames == {"Managed Security", "IoT Gateway"}

CurrentProductsDomain == {<<>>, <<"Internet Basic", "Managed Security">>}

CompanyRevenueDomain == {0, 500000, 20000000}

TenureDomain == {0, 1, 3, 10}

ComplexityDomain == {"Simple", "Medium", "Complex"}

TagsDomain == {{}, {"Retention"}}

CostTierDomain == 1..3

\* The pair counts: none recorded, or pairs counted more often than there are
\* companies (a company lists a product once per service row).
CoOccurrenceDomain ==
    {<<>>,
     [p \in {"Internet Basic", "Managed Security", "IoT Gateway"} |->
        [q \in {"Internet Basic", "Managed Security", "IoT Gateway"} \ {p} |->
            IF "Internet Basic" \in {p, q} THEN 1 ELSE 3]]}

Companies ==
    [tier : TierDomain, category : CompanyCategoryDomain,
     bandwidth_clean : BandwidthCleanDomain, industry : IndustryDomain,
     current_products : CurrentProductsDomain, revenue : CompanyRevenueDomain,
     tenure_clean : TenureDomain]

\* A product as process_data builds it (tier_level and cost_tier are both
\* estimate_cost_tier of the nomenklatur), with the optional fields the
\* scoring function reads.
Products ==
    {[name |-> n, category |-> c, tier_level |-> t, cost_tier |-> t,
      min_bandwidth |-> b, complexity |-> x, target_industries |-> i, tags |-> g] :
        n \in ProductNames, c \in ProductCategoryDomain, t \in CostTierDomain,
        b \in MinBandwidthDomain, x \in ComplexityDomain,
        i \in TargetIndustriesDomain, g \in TagsDomain}

\* TIER_LEVELS.get(tier, 2)
TIER_LEVELS(tier) ==
    CASE tier = "DI-TS"           -> 1
      [] tier = "DI-SDS-TS"       -> 2
      [] tier = "DI-SDS-SDS"      -> 3
      [] tier = "ALL NOMENKLATUR" -> 4
      [] OTHER                    -> 2

categorize_arpu_realistic(rev) ==
    IF rev = 0 THEN <<"Bundled/Free", 0>>
    ELSE IF rev < 1000000 THEN <<"Entry", 1>>
    ELSE IF rev < 3500000 THEN <<"Mid", 2>>
    ELSE IF rev < 15000000 THEN <<"High", 3>>
    ELSE <<"Enterprise", 4>>

\* keyword in product['name']
InName(keyword, name) ==
    \/ keyword = "Security" /\ name = "Managed Security"
    \/ keyword = "IoT" /\ name = "IoT Gateway"

Min(a, b) == IF a <= b THEN a ELSE b

RECURSIVE BoostSum(_, _, _)
\* The loop of get_cooccurrence_boost: 20 * count for every current product
\* that has a count with the candidate (boost * total_companies).
BoostSum(company_products, candidate_product, co) ==
    IF company_products = <<>> THEN 0
    ELSE LET current_product == Head(company_products)
             rest == BoostSum(Tail(company_products), candidate_product, co)
         IN  IF current_product \in DOMAIN co
                 /\ candidate_product \in DOMAIN co[current_product]
             THEN co[current_product][candidate_product] * 20 + rest
             ELSE rest

\* get_cooccurrence_boost, times total.
get_cooccurrence_boost(company_products, candidate_product, co, total) ==
    Min(BoostSum(company_products, candidate_product, co), 20 * total)

\* Factor 1: Tier Compatibility (15%)
tier_credit(c, p) ==
    LET tier_diff == p.tier_level - TIER_LEVELS(c.tier)
    IN  IF tier_diff = 0 THEN 15
        ELSE IF tier_diff = 1 THEN 12
        ELSE IF tier_diff = 2 THEN 8
        ELSE 3

\* Factor 2: Category Match (15%)
category_credit(c, p) ==
    IF p.category = c.category THEN 15
    ELSE IF p.category \in {"Technology Services", "Digital Infrastructure"}
            /\ c.category \in {"Technology Services", "Digital Infrastructure"}
    THEN 10
    ELSE 5

\* Factor 3: Bandwidth Suitability (15%)
bandwidth_credit(c, p) ==
    LET company_bw == c.bandwidth_clean[1]
        bw_type == c.bandwidth_clean[2]
        product_min_bw == p.min_bandwidth
    IN  IF bw_type = "IP-Only"
        THEN IF p.category = "Connectivity" THEN 15
             ELSE IF product_min_bw = 0 THEN 15
             ELSE 5
        ELSE IF product_min_bw = 0 THEN 15
        ELSE IF 2 * company_bw >= 3 * product_min_bw THEN 15
        ELSE IF company_bw >= product_min_bw THEN 10
        ELSE IF 2 * company_bw >= product_min_bw THEN 5
        ELSE 2

\* Factor 4: Industry Fit (15%)
industry_credit(c, p) ==
    IF p.target_industries # {} /\ c.industry \in p.target_industries THEN 15
    ELSE IF c.industry \in {"BANKING & FINANCIAL", "GOVERNMENT"} /\ InName("Security", p.name)
    THEN 12
    ELSE IF c.industry \in {"MANUFACTURE"} /\ InName("IoT", p.name) THEN 12
    ELSE 5

\* Factor 5: Current Product Gap/Co-occurrence (10%), times total.
cooccurrence_credit(c, p, co, total) ==
    IF c.current_products # <<>>
    THEN Min(get_cooccurrence_boost(c.current_products, p.name, co, total), 10 * total)
    ELSE 5 * total

\* Factor 6: Regional Availability (5%)
regional_credit == 5

\* Factor 7: ARPU Affordability (15%)
affordability_credit(c, p) ==
    LET company_arpu_level == categorize_arpu_realistic(c.revenue)[2]
        product_cost_level == p.cost_tier
        tier_diff == product_cost_level - company_arpu_level
    IN  IF c.revenue = 0
        THEN IF product_cost_level = 1 THEN 8 ELSE 3
        ELSE IF tier_diff = 0 THEN 15
        ELSE IF tier_diff = 1 THEN 12
        ELSE IF tier_diff = 2 THEN 7
        ELSE 2

\* Mutant: at tenure 0 a Simple product gets the credit of the other
\* complexities.
tenure_credit_simple_as_others(c, p) ==
    LET tenure == c.tenure_clean
        complexity == p.complexity
    IN  IF tenure = 0
        THEN 3 + (IF "Retention" \in p.tags THEN 5 ELSE 0)
        ELSE IF 2 * tenure < 1 THEN (IF complexity = "Simple" THEN 10 ELSE 3)
        ELSE IF tenure < 2 THEN (IF complexity \in {"Simple", "Medium"} THEN 10 ELSE 6)
        ELSE IF tenure <= 5 THEN 10
        ELSE (IF complexity \in {"Medium", "Complex"} THEN 10 ELSE 7)

\* Factor 8: Tenure Strategy (10%)
tenure_credit(c, p) ==
    LET tenure == c.tenure_clean
        complexity == p.complexity
    IN  IF tenure = 0
        THEN (IF complexity = "Simple" THEN 10 ELSE 3)
                + (IF "Retention" \in p.tags THEN 5 ELSE 0)
        ELSE IF 2 * tenure < 1 THEN (IF complexity = "Simple" THEN 10 ELSE 3)
        ELSE IF tenure < 2 THEN (IF complexity \in {"Simple", "Medium"} THEN 10 ELSE 6)
        ELSE IF tenure <= 5 THEN 10
        ELSE (IF complexity \in {"Medium", "Complex"} THEN 10 ELSE 7)

\* The eight amounts added to score, in order, each times total.
ScoreFactors(c, p, co, total) ==
    <<total * tier_credit(c, p), total * category_credit(c, p),
      total * bandwidth_credit(c, p), total * industry_credit(c, p),
      cooccurrence_credit(c, p, co, total), total * regional_credit,
      total * affordability_credit(c, p), total * tenure_credit(c, p)>>

\* Mutant: the sum is returned as it is.
calculate_nbo_score_v4_2_uncapped(c, p, co, total) ==
    SumSeq(ScoreFactors(c, p, co, total))

\* calculate_nbo_score_v4_2, times total: min(score, 100).
calculate_nbo_score_v4_2(c, p, co, total) ==
    Min(SumSeq(ScoreFactors(c, p, co, total)), 100 * total)

\* One call of calculate_nbo_score_v4_2 on a product of the catalog.
score_product ==
    /\ pc = "score"
    /\ \E p \in Products :
          /\ product' = p
          /\ score_factors' = ScoreFactors(company, p, co_occurrence, total_companies)
          /\ score' = calculate_nbo_score_v4_2(company, p, co_occurrence, total_companies)
    /\ pc' = "scored"
    /\ UNCHANGED <<company, co_occurrence, total_companies>>
    /\ UNCHANGED <<variant, has_kategori, df, cluster_thresholds, sales_vars, nbo_vars, run_vars>>

InitScore ==
    /\ company \in Companies
    /\ co_occurrence \in CoOccurrenceDomain
    /\ total_companies \in 1..MaxCompanies
    /\ product = <<>>
    /\ score_factors = <<>>
    /\ score = 0
    /\ MatrixUnused /\ pc = "score"
    /\ SalesUnused /\ NboUnused /\ RunUnused

NextScore == score_product

SpecScore == InitScore /\ [][NextScore]_vars

----------------------------------------------------------------------------
(* Properties of the NBO score                                              *)

\* C8: calculate_nbo_score_v4_2 returns a value in [0, 100] for every company,
\* product, co-occurrence index and total_companies >= 1.
C8_ScoreWithinZeroAndHundred ==
    pc = "scored" => (0 <= score /\ score <= 100 * total_companies)

\* A score was returned for a company with zero revenue, tenure 0, an unknown
\* tier, IP-Only bandwidth and no current products.
C8_Witness ==
    /\ pc = "scored"
    /\ company.revenue = 0
    /\ company.tenure_clean = 0
    /\ company.tier = "UNKNOWN"
    /\ company.bandwidth_clean[2] = "IP-Only"
    /\ company.current_products = <<>>
    /\ score > 0

\* The stated weights of the eight factors: tier, category, bandwidth,
\* industry, co-occurrence, regional availability, affordability, tenure fit.
FactorWeights == <<15, 15, 15, 15, 10, 5, 15, 10>>

\* C9: the eight stated maxima sum to 100, no factor awards more than its
\* stated weight, and so the uncapped sum never exceeds 100.
C9_NoFactorExceedsItsWeight ==
    /\ SumSeq(FactorWeights) = 100
    /\ pc = "scored" =>
          /\ Len(score_factors) = Len(FactorWeights)
          /\ \A k \in 1..Len(FactorWeights) :
                score_factors[k] <= FactorWeights[k] * total_companies
          /\ SumSeq(score_factors) <= 100 * total_companies

----------------------------------------------------------------------------
(* process_data of cvo_nbo_advanced_v4_2: catalog, scoring, ranking          *)

MaxRows == 2

MaxCatalog == 4

MaxRuns == 2

TopK == 3

\* The cleaned service rows of the validated companies (df_filtered after
\* step 2). Columns that do not vary here: Kategori_Baru, Kelompok Tier.
ServiceRows ==
    [Row_Labels : {"PT A", "PT B"},
     ProdukBaru : {"Internet Basic", "Managed Security"},
     hargaPelanggan : {500000, 4000000},
     tenure_clean : {0},
     bandwidth_mbps : {20}, bandwidth_type : {"Connectivity"},
     segmenCustomer : {"GOVERNMENT"}, Kategori_Baru : {"Connectivity"},
     Kelompok_Tier : {"DI-TS"}]
    \cup
    \* A service without revenue, bandwidth and tenure: step 2 gives (0,
    \* "Non-Connectivity") and tenure 3 for the empty cells, and the missing
    \* amount adds nothing to the company's sum.
    [Row_Labels : {"PT A", "PT B"},
     ProdukBaru : {"Internet Basic"},
     hargaPelanggan : {0},
     tenure_clean : {3},
     bandwidth_mbps : {0}, bandwidth_type : {"Non-Connectivity"},
     segmenCustomer : {"RETAIL"}, Kategori_Baru : {"Connectivity"},
     Kelompok_Tier : {"DI-TS"}]

CatalogRows ==
    {[Produk |-> "Internet Basic", Kategori_Produk |-> "Connectivity",
      Nomenklatur_Baru |-> "DI-TS"],
     [Produk |-> "Internet Starter", Kategori_Produk |-> "Connectivity",
      Nomenklatur_Baru |-> "DI-TS"],
     [Produk |-> "Managed Security", Kategori_Produk |-> "Technology Services",
      Nomenklatur_Baru |-> "DI-SDS-TS"],
     [Produk |-> "IoT Gateway", Kategori_Produk |-> "Digital Infrastructure",
      Nomenklatur_Baru |-> "ALL NOMENKLATUR"]}

\* estimate_cost_tier: the first of 'DI-TS', 'DI-SDS-TS', 'DI-SDS-SDS' that
\* occurs in the nomenklatur; 2 when none does.
estimate_cost_tier(nomenklatur) ==
    CASE nomenklatur = "DI-TS"      -> 1
      [] nomenklatur = "DI-SDS-TS"  -> 2
      [] nomenklatur = "DI-SDS-SDS" -> 3
      [] OTHER                      -> 2

\* infer_product_complexity: the first complexity of COMPLEXITY_KEYWORDS with
\* a keyword in the lower-cased name ('basic' and 'starter' are Simple,
\* 'managed' is Complex); Medium when none has.
infer_product_complexity(product_name) ==
    CASE product_name \in {"Internet Basic", "Internet Starter"} -> "Simple"
      [] product_name = "Managed Security"                       -> "Complex"
      [] OTHER                                                   -> "Medium"

\* Step 4: the product built from one catalog row, without the 'nomenklatur'
\* and 'tier' copies of the nomenklatur. The dict has no 'tags' key:
\* product.get('tags', []) is the empty list.
ProcessCatalogRow(row) ==
    [name              |-> row.Produk,
     category          |-> row.Kategori_Produk,
     tier_level        |-> estimate_cost_tier(row.Nomenklatur_Baru),
     cost_tier         |-> estimate_cost_tier(row.Nomenklatur_Baru),
     min_bandwidth     |-> 0,
     complexity        |-> infer_product_complexity(row.Produk),
     target_industries |-> {},
     tags              |-> {}]

\* The values of column f in the rows of one company, in frame order.
GroupColumn(rows, nama, f) ==
    LET OfCompany(r) == r.Row_Labels = nama
    IN  Column(SelectSeq(rows, OfCompany), f)

RECURSIVE Unique(_)
\* Series.unique(): the values in order of first appearance.
Unique(s) ==
    IF s = <<>> THEN <<>>
    ELSE LET front == Unique(SubSeq(s, 1, Len(s) - 1))
             last  == s[Len(s)]
         IN  IF \E i \in 1..Len(front) : front[i] = last THEN front
             ELSE Append(front, last)

RECURSIVE MaxSeq(_)
MaxSeq(s) ==
    IF Len(s) = 1 THEN s[1]
    ELSE LET m == MaxSeq(Tail(s)) IN IF Head(s) >= m THEN Head(s) ELSE m

CompanyNames(rows) == {rows[i].Row_Labels : i \in 1..Len(rows)}

\* The number of times p1 and p2 are counted together: every pair of positions
\* i < j in the product list of a company adds one to [p1][p2] and to [p2][p1].
PairCount(rows, p1, p2) ==
    Cardinality(
        {t \in CompanyNames(rows) \X (1..Len(rows)) \X (1..Len(rows)) \X {1, 2} :
            LET l == GroupColumn(rows, t[1], "ProdukBaru")
            IN  /\ t[2] < t[3] /\ t[3] <= Len(l)
                /\ \/ t[4] = 1 /\ l[t[2]] = p1 /\ l[t[3]] = p2
                   \/ t[4] = 2 /\ l[t[3]] = p1 /\ l[t[2]] = p2})

\* build_cooccurrence_matrix: the keys are the products counted at least once.
build_cooccurrence_matrix(rows) ==
    LET names == {rows[i].ProdukBaru : i \in 1..Len(rows)}
        Partners(p1) == {p2 \in names : PairCount(rows, p1, p2) > 0}
    IN  [p1 \in {p \in names : Partners(p) # {}} |->
            [p2 \in Partners(p1) |-> PairCount(rows, p1, p2)]]

\* Step 5 and company_data: the aggregate of one company.
CompanyData(rows, nama) ==
    [nama             |-> nama,
     revenue          |-> SumSeq(GroupColumn(rows, nama, "hargaPelanggan")),
     bandwidth_clean  |-> <<MaxSeq(GroupColumn(rows, nama, "bandwidth_mbps")),
                            GroupColumn(rows, nama, "bandwidth_type")[1]>>,
     tenure_clean     |-> GroupColumn(rows, nama, "tenure_clean")[1],
     industry         |-> GroupColumn(rows, nama, "segmenCustomer")[1],
     category         |-> GroupColumn(rows, nama, "Kategori_Baru")[1],
     tier             |-> GroupColumn(rows, nama, "Kelompok_Tier")[1],
     current_products |-> Unique(GroupColumn(rows, nama, "ProdukBaru"))]

RECURSIVE InsertByScore_ties_reversed(_, _)
InsertByScore_ties_reversed(sorted, x) ==
    IF sorted = <<>> THEN <<x>>
    ELSE IF x[2] >= Head(sorted)[2] THEN <<x>> \o sorted
    ELSE <<Head(sorted)>> \o InsertByScore_ties_reversed(Tail(sorted), x)

RECURSIVE sort_by_score_ties_reversed(_)
\* Mutant: entries of equal score come out in reverse catalog order.
sort_by_score_ties_reversed(product_scores) ==
    IF product_scores = <<>> THEN <<>>
    ELSE InsertByScore_ties_reversed(
             sort_by_score_ties_reversed(SubSeq(product_scores, 1, Len(product_scores) - 1)),
             product_scores[Len(product_scores)])

RECURSIVE InsertByScore(_, _)
\* x goes behind every entry whose score is at least its own.
InsertByScore(sorted, x) ==
    IF sorted = <<>> THEN <<x>>
    ELSE IF x[2] > Head(sorted)[2] THEN <<x>> \o sorted
    ELSE <<Head(sorted)>> \o InsertByScore(Tail(sorted), x)

RECURSIVE sort_by_score(_)
\* product_scores.sort(key=lambda x: x[1], reverse=True): list.sort is stable,
\* and with reverse=True entries of equal key keep their original order.
sort_by_score(product_scores) ==
    IF product_scores = <<>> THEN <<>>
    ELSE InsertByScore(sort_by_score(SubSeq(product_scores, 1, Len(product_scores) - 1)),
                       product_scores[Len(product_scores)])

\* The loop over the catalog: (product, score) in catalog order.
ProductScores(c, catalog, co, total) ==
    [i \in 1..Len(catalog) |->
        <<catalog[i], calculate_nbo_score_v4_2(c, catalog[i], co, total)>>]

\* product_scores[:3] after the sort.
Top3(c, catalog, co, total) ==
    LET sorted == sort_by_score(ProductScores(c, catalog, co, total))
    IN  SubSeq(sorted, 1, Min(TopK, Len(sorted)))

\* Steps 1 to 4 of process_data: the filtered and cleaned frame, the
\* co-occurrence matrix, the number of companies, the processed catalog.
prepare_data ==
    /\ pc = "nbo_start"
    /\ \E rows \in SeqsUpTo(ServiceRows, MaxRows), df_catalog \in SeqsUpTo(CatalogRows, MaxCatalog) :
          /\ df' = rows
          /\ co_occurrence' = build_cooccurrence_matrix(rows)
          /\ total_companies' = Cardinality(CompanyNames(rows))
          /\ products' = [i \in 1..Len(df_catalog) |-> ProcessCatalogRow(df_catalog[i])]
    /\ pc' = "nbo_ready"
    /\ UNCHANGED <<variant, has_kategori, cluster_thresholds, sales_vars>>
    /\ UNCHANGED <<company, product, score_factors, score, top3, strategy, recommendations>>
    /\ UNCHANGED run_vars

\* Mutant: no fixed sentence when no reason applies.
generate_reasoning_without_default(c, p, factors) ==
    LET category_reason ==
            IF p.category = c.category THEN <<"Melengkapi layanan">> ELSE <<>>
        industry_reason ==
            IF c.industry \in {"BANKING & FINANCIAL", "GOVERNMENT"}
            THEN <<"Compliance penting untuk sektor">> ELSE <<>>
        tenure_reason ==
            IF c.tenure_clean = 0 THEN <<"Prioritas renewal kontrak 2026">>
            ELSE IF c.tenure_clean > 5 THEN <<"Customer loyal - layanan premium tersedia">>
            ELSE <<>>
    IN  category_reason \o industry_reason \o tenure_reason

\* generate_reasoning: the reasons in order, joined with " | " in the source;
\* the fixed sentence when there is none. The processed catalog has no
\* 'cost_category' key (the default 'Unknown' is no ARPU category).
generate_reasoning(c, p, factors) ==
    LET arpu_reason ==
            IF c.revenue > 0 /\ categorize_arpu_realistic(c.revenue)[1] = "Unknown"
            THEN <<"Sesuai daya beli">> ELSE <<>>
        bandwidth_reason ==
            IF c.bandwidth_clean[2] = "IP-Only"
            THEN <<"Anda punya IP, segera bundling dengan Internet untuk SLA lebih baik">>
            ELSE <<>>
        category_reason ==
            IF p.category = c.category THEN <<"Melengkapi layanan">> ELSE <<>>
        industry_reason ==
            IF c.industry \in {"BANKING & FINANCIAL", "GOVERNMENT"}
            THEN <<"Compliance penting untuk sektor">> ELSE <<>>
        tenure_reason ==
            IF c.tenure_clean = 0 THEN <<"Prioritas renewal kontrak 2026">>
            ELSE IF c.tenure_clean > 5 THEN <<"Customer loyal - layanan premium tersedia">>
            ELSE <<>>
        cooccurrence_reason ==
            IF "has_complementary" \in factors
            THEN <<"Pelanggan serupa juga membeli produk ini">> ELSE <<>>
        reasons == arpu_reason \o bandwidth_reason \o category_reason
                       \o industry_reason \o tenure_reason \o cooccurrence_reason
    IN  IF reasons # <<>> THEN reasons ELSE <<"Rekomendasi berdasarkan profil lengkap">>

\* Mutant: the first slot is filled only when a second recommendation exists.
NBOSlots_first_needs_second(c, top) ==
    [k \in 1..TopK |->
        IF Len(top) > k
        THEN [Product   |-> top[k][1].name,
              Score     |-> top[k][2],
              Reasoning |-> generate_reasoning(c, top[k][1], {})]
        ELSE [Product |-> "", Score |-> 0, Reasoning |-> <<>>]]

\* The NBO_k_Product, NBO_k_Score and NBO_k_Reasoning columns of the record:
\* filled from top3[k - 1] if len(top3) > k - 1, else '', 0 and ''.
NBOSlots(c, top) ==
    [k \in 1..TopK |->
        IF Len(top) > k - 1
        THEN [Product   |-> top[k][1].name,
              Score     |-> top[k][2],
              Reasoning |-> generate_reasoning(c, top[k][1], {})]
        ELSE [Product |-> "", Score |-> 0, Reasoning |-> <<>>]]

\* Step 6 for one company of the frame: scores, top 3, strategy, record (the
\* priority column of the record is left out). The pipeline may be run again
\* over the same frame and catalog.
generate_nbo ==
    /\ pc = "nbo_ready"
    /\ Len(recommendations) < MaxRuns
    /\ \E nama \in CompanyNames(df) :
          LET company_data == CompanyData(df, nama)
              top == Top3(company_data, products, co_occurrence, total_companies)
              strat == assign_strategy(company_data.revenue, company_data.bandwidth_clean[1])
          IN  /\ company' = company_data
              /\ top3' = top
              /\ strategy' = strat
              /\ recommendations' =
                    Append(recommendations,
                           [nama |-> nama, top3 |-> top, strategy |-> strat,
                            NBO |-> NBOSlots(company_data, top)])
    /\ UNCHANGED <<matrix_vars, sales_vars>>
    /\ UNCHANGED <<product, co_occurrence, total_companies, score_factors, score, products>>
    /\ UNCHANGED run_vars

InitNBO ==
    /\ variant = ""
    /\ has_kategori = FALSE
    /\ df = <<>>
    /\ cluster_thresholds = <<>>
    /\ pc = "nbo_start"
    /\ SalesUnused /\ ScoreUnused /\ NboUnused /\ RunUnused

NextNBO ==
    \/ prepare_data
    \/ generate_nbo

SpecNBO == InitNBO /\ [][NextNBO]_vars

----------------------------------------------------------------------------
(* Properties of process_data                                               *)

\* The score of every catalog entry for the company, in catalog order.
CatalogScores ==
    [i \in 1..Len(products) |->
        calculate_nbo_score_v4_2(company, products[i], co_occurrence, total_companies)]

\* Catalog entry j is ranked before catalog entry i: a higher score, or the
\* same score and an earlier place in the catalog.
RankedBefore(scores, j, i) ==
    \/ scores[j] > scores[i]
    \/ scores[j] = scores[i] /\ j < i

\* The catalog index that takes place k of the ranking.
Ranked(scores, k) ==
    CHOOSE i \in 1..Len(scores) :
        Cardinality({j \in 1..Len(scores) : RankedBefore(scores, j, i)}) = k - 1

\* C10: the recommendations are the first three catalog entries by score
\* descending, entries of equal score in catalog order, each with its score;
\* every run over the same company, catalog and co-occurrence index gives the
\* identical list.
C10_TopThreeByScoreThenCatalogOrder ==
    recommendations # <<>> =>
        LET scores == CatalogScores
        IN  /\ Len(top3) = Min(3, Len(products))
            /\ \A k \in 1..Len(top3) :
                  LET i == Ranked(scores, k)
                  IN  top3[k] = <<products[i], scores[i]>>
            /\ \A m \in 1..Len(recommendations), n \in 1..Len(recommendations) :
                  recommendations[m].nama = recommendations[n].nama =>
                      recommendations[m].top3 = recommendations[n].top3

\* The same company was scored twice against a catalog of four products, two
\* different products of equal score among the first three and a product of
\* lower score left out.
C10_Witness ==
    /\ Len(recommendations) = 2
    /\ recommendations[1].nama = recommendations[2].nama
    /\ Len(products) = 4
    /\ Len(top3) = 3
    /\ \E k \in 1..2 : top3[k][2] = top3[k + 1][2] /\ top3[k][1] # top3[k + 1][1]
    /\ \E i \in 1..Len(products) : CatalogScores[i] < top3[3][2]

\* C7 for assign_strategy: revenue and bandwidth are compared with the
\* medians of the customer's own population using >=, so the only company of a
\* run is high on both axes and lands in the high/high quadrant.
C7_LoneCustomerIsHighHigh_assign_strategy ==
    (recommendations # <<>> /\ total_companies = 1) => strategy = <<"Star", "RETAIN">>


\* The catalog names, and the record of the last run.
CatalogNames == {products[i].name : i \in 1..Len(products)}

LastRecord == recommendations[Len(recommendations)]

SlotFilled(slot) ==
    /\ slot.Product \in CatalogNames
    /\ slot.Reasoning # <<>>
    /\ slot.Score > 0

SlotEmpty(slot) == slot.Product = "" /\ slot.Score = 0 /\ slot.Reasoning = <<>>

\* C11 as stated: every record carries exactly three recommendations, NBO_1,
\* NBO_2 and NBO_3 all naming a catalog product with score and rationale, for
\* every catalog the engine accepts.
C11_AlwaysThreeFilledSlots ==
    \A m \in 1..Len(recommendations) :
        \A k \in 1..3 : SlotFilled(recommendations[m].NBO[k])

\* C11 amended: a record carries min(3, catalog size) recommendations; slot k
\* names the catalog product ranked k with its score and a non-empty rationale
\* for k up to that number, and is empty ('' and 0) beyond it.
C11_SlotsFilledUpToCatalogSize ==
    \A m \in 1..Len(recommendations) :
        /\ Len(recommendations[m].NBO) = 3
        /\ \A k \in 1..3 :
              IF k <= Len(products)
              THEN /\ SlotFilled(recommendations[m].NBO[k])
                   /\ recommendations[m].NBO[k].Product = recommendations[m].top3[k][1].name
                   /\ recommendations[m].NBO[k].Score = recommendations[m].top3[k][2]
              ELSE SlotEmpty(recommendations[m].NBO[k])

\* A record made from a catalog of two products: two slots filled, the third
\* empty.
C11_Witness ==
    /\ recommendations # <<>>
    /\ Len(products) = 2
    /\ SlotFilled(LastRecord.NBO[1]) /\ SlotFilled(LastRecord.NBO[2])
    /\ SlotEmpty(LastRecord.NBO[3])


----------------------------------------------------------------------------
(* Cleaning of the raw bandwidth and tenure cells (process_data, step 2)    *)

\* A text is a sequence of characters, each a one-character string; "sup2"
\* stands for the single character U+00B2 (superscript two). A cell of the
\* sheet is NaN or holds a text: both parsers work on str() of the cell, so a
\* numeric cell is represented by its printed text.
MaxTokens == 3

MaxRawRows == 3

NaN == [isna |-> TRUE, text |-> <<>>]

Text(s) == [isna |-> FALSE, text |-> s]

\* The texts made of at most n tokens of the pool, written one after another.
RECURSIVE TokenStrings(_, _)
TokenStrings(tokens, n) ==
    IF n = 0 THEN {<<>>}
    ELSE LET shorter == TokenStrings(tokens, n - 1)
         IN  shorter \cup {s \o t : s \in shorter, t \in tokens}

TidakAda == <<"T", "i", "d", "a", "k", " ", "A", "d", "a">>

IP == <<"I", "P">>

MBPS == <<"M", "B", "P", "S">>

GBPS == <<"G", "B", "P", "S">>

E1 == <<"E", "1">>

Berkontrak == <<"B", "e", "r", "k", "o", "n", "t", "r", "a", "k">>

TidakValid == <<"T", "i", "d", "a", "k", " ", "V", "a", "l", "i", "d">>

Invalid == <<"I", "n", "v", "a", "l", "i", "d">>

BandwidthTokens ==
    {<<"5">>,
     <<"0", ".", "5">>,
     <<"1", "0">>,
     <<" ">>,
     <<"I", "P">>,
     <<"M", "B", "P", "S">>,
     <<"G", "B", "P", "S">>,
     <<"E", "1">>,
     <<"m", "b", "p", "s">>,
     <<"x">>,
     <<".">>,
     <<"sup2">>,
     <<"T", "i", "d", "a", "k", " ", "A", "d", "a">>}

TenureTokens ==
    {<<"5">>,
     <<"3", "0">>,
     <<"'">>,
     <<" ">>,
     <<"x">>,
     <<"sup2">>,
     <<"B", "e", "r", "k", "o", "n", "t", "r", "a", "k", " ", "d", "i", " ", "T", "a", "h", "u", "n", " ", "2", "0", "2", "6">>,
     <<"D", "a", "t", "a", " ", "T", "i", "d", "a", "k", " ", "V", "a", "l", "i", "d">>,
     <<"I", "n", "v", "a", "l", "i", "d">>}

\* The sheets the cleaning step is run on: one row with any bandwidth cell, one
\* row with any tenure cell, or a few rows of the dataset tenures.
RawFrames ==
    LET BandwidthCells == {NaN} \cup {Text(s) : s \in TokenStrings(BandwidthTokens, MaxTokens)}
        TenureCells == {NaN} \cup {Text(s) : s \in TokenStrings(TenureTokens, MaxTokens)}
        \* the tenure column of a small dataset
        DatasetTenureCells ==
            {Text(<<"1", "0">>), Text(<<"2">>), Text(<<"3", "0">>),
             Text(<<"D", "a", "t", "a", " ", "T", "i", "d", "a", "k", " ", "V", "a", "l", "i", "d">>)}
    IN  {<<[Bandwidth_Fix |-> b, Lama_Langganan |-> NaN]>> : b \in BandwidthCells}
        \cup {<<[Bandwidth_Fix |-> NaN, Lama_Langganan |-> t]>> : t \in TenureCells}
        \cup {[i \in 1..Len(col) |-> [Bandwidth_Fix |-> NaN, Lama_Langganan |-> col[i]]] :
                col \in SeqsUpTo(DatasetTenureCells, MaxRawRows) \ {<<>>}}

\* --- Python's str and re, as far as the parsers use them ---

\* str.upper
upper(s) ==
    LET LowerCase == <<"a", "b", "c", "d", "e", "f", "g", "h", "i", "j", "k", "l", "m",
                       "n", "o", "p", "q", "r", "s", "t", "u", "v", "w", "x", "y", "z">>
        UpperCase == <<"A", "B", "C", "D", "E", "F", "G", "H", "I", "J", "K", "L", "M",
                       "N", "O", "P", "Q", "R", "S", "T", "U", "V", "W", "X", "Y", "Z">>
        UpperChar(c) ==
            IF \E k \in 1..26 : LowerCase[k] = c
            THEN UpperCase[CHOOSE k \in 1..26 : LowerCase[k] = c]
            ELSE c
    IN  [i \in 1..Len(s) |-> UpperChar(s[i])]

IsSpace(c) == c = " "

MinOf(S) == CHOOSE x \in S : \A y \in S : x <= y

MaxOf(S) == CHOOSE x \in S : \A y \in S : y <= x

\* str.strip(): leading and trailing whitespace removed
strip(s) ==
    LET kept == {i \in 1..Len(s) : ~IsSpace(s[i])}
    IN  IF kept = {} THEN <<>> ELSE SubSeq(s, MinOf(kept), MaxOf(kept))

\* str.strip(chars) for a single character
strip_char(s, c) ==
    LET kept == {i \in 1..Len(s) : s[i] # c}
    IN  IF kept = {} THEN <<>> ELSE SubSeq(s, MinOf(kept), MaxOf(kept))

\* sub in s
Contains(sub, s) ==
    \E i \in 1..(Len(s) - Len(sub) + 1) : SubSeq(s, i, i + Len(sub) - 1) = sub

\* What the pattern \d and int() take for a digit.
IsDecimal(c) == c \in {"0", "1", "2", "3", "4", "5", "6", "7", "8", "9"}

\* str.isdigit(): non-empty and digits only, where a digit is a decimal
\* digit or a superscript or other digit character, which int() does not read
isdigit(s) == s # <<>> /\ \A i \in 1..Len(s) : IsDecimal(s[i]) \/ s[i] = "sup2"

\* The number a text of decimal digits reads as.
RECURSIVE DecimalNumber(_)
DecimalNumber(s) ==
    LET DecimalDigits == <<"0", "1", "2", "3", "4", "5", "6", "7", "8", "9">>
        DecimalValue(c) == (CHOOSE d \in 1..10 : DecimalDigits[d] = c) - 1
    IN  IF s = <<>> THEN 0
        ELSE 10 * DecimalNumber(SubSeq(s, 1, Len(s) - 1)) + DecimalValue(s[Len(s)])

\* The outcome of a call: a returned value, or the exception it raised.
Returned(v) == [raised |-> "", value |-> v]

Raised(e) == [raised |-> e, value |-> <<>>]

\* int(s) of a text without sign, blanks or underscores
int(s) ==
    IF s # <<>> /\ \A i \in 1..Len(s) : IsDecimal(s[i])
    THEN Returned(DecimalNumber(s))
    ELSE Raised("ValueError")

NoMatch == [found |-> FALSE, first |-> 0, group1 |-> <<>>, group2 |-> <<>>]

\* re.search(r'(\d+)\s*(MBPS|GBPS)', bw): the leftmost position where a run of
\* digits, any whitespace and a unit follow one another; the digits matched
\* greedily.
re_search_number_unit(bw) ==
    LET n == Len(bw)
        UnitAt(k) == IF k + 3 <= n THEN SubSeq(bw, k, k + 3) ELSE <<>>
        \* digits i..j, whitespace j+1..k-1, the unit from k
        MatchAt(i, j, k) ==
            /\ \A x \in i..j : IsDecimal(bw[x])
            /\ \A x \in (j + 1)..(k - 1) : IsSpace(bw[x])
            /\ UnitAt(k) \in {MBPS, GBPS}
        Ends(i) == {jk \in (i..n) \X ((i + 1)..n) : jk[1] < jk[2] /\ MatchAt(i, jk[1], jk[2])}
        starts == {i \in 1..n : IsDecimal(bw[i]) /\ Ends(i) # {}}
    IN  IF starts = {} THEN NoMatch
        ELSE LET i == MinOf(starts)
                 j == MaxOf({jk[1] : jk \in Ends(i)})
                 k == MaxOf({jk[2] : jk \in {e \in Ends(i) : e[1] = j}})
             IN  [found |-> TRUE, first |-> i, group1 |-> SubSeq(bw, i, j), group2 |-> UnitAt(k)]

\* re.match(r"^'\d+'$", s)
re_match_quoted_number(s) ==
    /\ Len(s) >= 3
    /\ s[1] = "'" /\ s[Len(s)] = "'"
    /\ \A x \in 2..(Len(s) - 1) : IsDecimal(s[x])

\* re.search(r'\d+', s): the first run of digits
re_search_number(s) ==
    LET n == Len(s)
        starts == {i \in 1..n : IsDecimal(s[i])}
    IN  IF starts = {} THEN NoMatch
        ELSE LET i == MinOf(starts)
                 j == MaxOf({e \in i..n : \A x \in i..e : IsDecimal(s[x])})
             IN  [found |-> TRUE, first |-> i, group1 |-> SubSeq(s, i, j), group2 |-> <<>>]


\* --- the two parsers ---

\* Lines 130-134: the matched number, in Mbps.
number_with_unit(match) ==
    LET number == int(match.group1)
        unit == match.group2
    IN  IF number.raised # "" THEN number
        ELSE IF unit = GBPS THEN Returned(<<number.value * 1000, "Connectivity">>)
        ELSE Returned(<<number.value, "Connectivity">>)

parse_bandwidth_smart(bandwidth_str) ==
    IF bandwidth_str.isna \/ bandwidth_str = Text(TidakAda)
    THEN Returned(<<0, "Non-Connectivity">>)
    ELSE LET bw == strip(upper(bandwidth_str.text))
             match == re_search_number_unit(bw)
         IN  IF Contains(IP, bw) /\ ~Contains(MBPS, bw) /\ ~Contains(GBPS, bw)
             THEN Returned(<<0, "IP-Only">>)
             ELSE IF match.found THEN number_with_unit(match)
             ELSE IF Contains(E1, bw) THEN Returned(<<2, "Connectivity">>)
             ELSE IF isdigit(bw)
             THEN LET number == int(bw)
                  IN  IF number.raised # "" THEN number
                      ELSE Returned(<<number.value, "Connectivity">>)
             ELSE Returned(<<0, "Unknown">>)

\* min(years, 26) of a number int() has read
CapAt26(years) ==
    IF years.raised # "" THEN years ELSE Returned(Min(years.value, 26))

clean_tenure_smart(tenure_value) ==
    IF tenure_value.isna THEN Returned(3)
    ELSE LET tenure_str == strip(tenure_value.text)
             match == re_search_number(tenure_str)
         IN  IF isdigit(tenure_str) THEN CapAt26(int(tenure_str))
             ELSE IF re_match_quoted_number(tenure_str)
             THEN CapAt26(int(strip_char(tenure_str, "'")))
             ELSE IF Contains(Berkontrak, tenure_str) THEN Returned(0)
             ELSE IF Contains(TidakValid, tenure_str) \/ Contains(Invalid, tenure_str)
             THEN Returned(3)
             ELSE IF match.found THEN CapAt26(int(match.group1))
             ELSE Returned(3)

\* --- process_data, step 2, on the raw sheet ---

\* df_filtered['Bandwidth Fix'].apply(parse_bandwidth_smart) and the two
\* columns taken from it; an exception of the parser ends process_data.
apply_parse_bandwidth_smart ==
    /\ pc = "raw"
    /\ LET parsed == [i \in 1..Len(df) |-> parse_bandwidth_smart(df[i].Bandwidth_Fix)]
       IN  IF \E i \in 1..Len(df) : parsed[i].raised # ""
           THEN /\ pc' = "ValueError"
                /\ df' = df
           ELSE /\ pc' = "bandwidth"
                /\ df' = [i \in 1..Len(df) |->
                            [Bandwidth_Fix |-> df[i].Bandwidth_Fix,
                             Lama_Langganan |-> df[i].Lama_Langganan,
                             bandwidth_clean |-> parsed[i].value,
                             bandwidth_mbps |-> parsed[i].value[1],
                             bandwidth_type |-> parsed[i].value[2]]]
    /\ UNCHANGED <<variant, has_kategori, cluster_thresholds>>
    /\ UNCHANGED <<sales_vars, score_vars, nbo_vars, run_vars>>

\* df_filtered['Lama_Langganan'].apply(clean_tenure_smart)
apply_clean_tenure_smart ==
    /\ pc = "bandwidth"
    /\ LET cleaned == [i \in 1..Len(df) |-> clean_tenure_smart(df[i].Lama_Langganan)]
       IN  IF \E i \in 1..Len(df) : cleaned[i].raised # ""
           THEN /\ pc' = "ValueError"
                /\ df' = df
           ELSE /\ pc' = "tenure"
                /\ df' = [i \in 1..Len(df) |->
                            [Bandwidth_Fix |-> df[i].Bandwidth_Fix,
                             Lama_Langganan |-> df[i].Lama_Langganan,
                             bandwidth_clean |-> df[i].bandwidth_clean,
                             bandwidth_mbps |-> df[i].bandwidth_mbps,
                             bandwidth_type |-> df[i].bandwidth_type,
                             tenure_clean |-> cleaned[i].value]]
    /\ UNCHANGED <<variant, has_kategori, cluster_thresholds>>
    /\ UNCHANGED <<sales_vars, score_vars, nbo_vars, run_vars>>

InitClean ==
    /\ df \in RawFrames
    /\ pc = "raw"
    /\ variant = "" /\ has_kategori = FALSE /\ cluster_thresholds = <<>>
    /\ SalesUnused /\ ScoreUnused /\ NboUnused /\ RunUnused

NextClean ==
    \/ apply_parse_bandwidth_smart
    \/ apply_clean_tenure_smart

SpecClean == InitClean /\ [][NextClean]_vars

\* The rows whose bandwidth has been parsed, and those whose tenure has been cleaned.
BandwidthParsed == IF pc \in {"bandwidth", "tenure"} THEN 1..Len(df) ELSE {}

TenureCleaned == IF pc = "tenure" THEN 1..Len(df) ELSE {}

\* C12: a null cell, the empty string and the sentinel "Tidak Ada" are each
\* parsed as (0, Non-Connectivity), whatever the other rules would say.
C12_NoBandwidthIsNonConnectivity ==
    \A i \in BandwidthParsed :
        (\/ df[i].Bandwidth_Fix = NaN
         \/ df[i].Bandwidth_Fix = Text(<<>>)
         \/ df[i].Bandwidth_Fix = Text(TidakAda))
        => df[i].bandwidth_clean = <<0, "Non-Connectivity">>


\* A run of digits, any blanks, then "IP".
DigitsThenIP(s) ==
    \E i \in 1..Len(s), k \in 1..(Len(s) - 1) :
        /\ i < k
        /\ IsDecimal(s[i])
        /\ \A x \in (i + 1)..(k - 1) : IsSpace(s[x])
        /\ SubSeq(s, k, k + 1) = IP

\* C13: a text is parsed as (0, IP-Only) exactly when it holds digits followed
\* by "IP" and neither MBPS nor GBPS.
C13_IPOnlyExactlyForDigitsThenIP ==
    \A i \in BandwidthParsed :
        LET s == upper(df[i].Bandwidth_Fix.text)
        IN  (df[i].bandwidth_clean = <<0, "IP-Only">>)
            <=> (DigitsThenIP(s) /\ ~Contains(MBPS, s) /\ ~Contains(GBPS, s))

\* The positions of the units that have a number written before them.
UnitsWithNumber(bw) ==
    {k \in 2..(Len(bw) - 3) :
        /\ SubSeq(bw, k, k + 3) \in {MBPS, GBPS}
        /\ \E e \in 1..(k - 1) :
              IsDecimal(bw[e]) /\ \A x \in (e + 1)..(k - 1) : IsSpace(bw[x])}

\* The number written before the unit at k: its digits, and how many of them
\* stand after the decimal point.
NumberBefore(bw, k) ==
    LET e == MaxOf({x \in 1..(k - 1) : IsDecimal(bw[x])})
        s == MinOf({x \in 1..e : \A y \in x..e : IsDecimal(bw[y]) \/ bw[y] = "."})
        dots == {x \in s..e : bw[x] = "."}
    IN  [digits |-> SelectSeq(SubSeq(bw, s, e), IsDecimal),
         decimals |-> IF dots = {} THEN 0 ELSE e - MaxOf(dots)]

RECURSIVE Pow10(_)
Pow10(n) == IF n = 0 THEN 1 ELSE 10 * Pow10(n - 1)

\* Caught by the null/sentinel rule or by the IP-only rule.
CaughtEarly(cell) ==
    \/ cell.isna
    \/ cell.text = <<>>
    \/ cell.text = TidakAda
    \/ LET s == upper(cell.text)
       IN  Contains(IP, s) /\ ~Contains(MBPS, s) /\ ~Contains(GBPS, s)

\* C14: for a text not caught by the null/sentinel and IP-only rules: a number
\* before MBPS or GBPS gives that number in Mbps (Gbps times 1000), the number
\* being the whole number written before the unit; otherwise "E1" gives 2;
\* otherwise a bare integer gives itself; otherwise (0, Unknown).
C14_RemainingRulesInPriorityOrder ==
    \A i \in BandwidthParsed :
        LET cell == df[i].Bandwidth_Fix
            bw == strip(upper(cell.text))
            units == UnitsWithNumber(bw)
        IN  ~CaughtEarly(cell) =>
                IF units # {}
                THEN LET k == MinOf(units)
                         number == NumberBefore(bw, k)
                         scale == IF SubSeq(bw, k, k + 3) = GBPS THEN 1000 ELSE 1
                     IN  /\ df[i].bandwidth_type = "Connectivity"
                         /\ df[i].bandwidth_mbps * Pow10(number.decimals)
                                = DecimalNumber(number.digits) * scale
                ELSE IF Contains(E1, bw)
                THEN df[i].bandwidth_clean = <<2, "Connectivity">>
                ELSE IF bw # <<>> /\ \A x \in 1..Len(bw) : IsDecimal(bw[x])
                THEN df[i].bandwidth_clean = <<DecimalNumber(bw), "Connectivity">>
                ELSE df[i].bandwidth_clean = <<0, "Unknown">>

\* A bandwidth text in none of the shapes the rules name.
Malformed(cell) ==
    \/ CaughtEarly(cell)
    \/ LET bw == strip(upper(cell.text))
       IN  /\ UnitsWithNumber(bw) = {}
           /\ ~Contains(E1, bw)
           /\ ~(bw # <<>> /\ \A x \in 1..Len(bw) : IsDecimal(bw[x]))

\* C15: neither normalizer raises, whatever the cell holds, and a malformed
\* bandwidth cell is parsed as one of the documented defaults.
C15_NormalizersNeverRaise ==
    /\ pc # "ValueError"
    /\ \A i \in BandwidthParsed :
          Malformed(df[i].Bandwidth_Fix) =>
              df[i].bandwidth_clean \in
                  {<<0, "Non-Connectivity">>, <<0, "IP-Only">>, <<0, "Unknown">>}


BerkontrakDiTahun2026 ==
    <<"B", "e", "r", "k", "o", "n", "t", "r", "a", "k", " ", "d", "i", " ",
      "T", "a", "h", "u", "n", " ", "2", "0", "2", "6">>

DataTidakValid ==
    <<"D", "a", "t", "a", " ", "T", "i", "d", "a", "k", " ", "V", "a", "l", "i", "d">>

AllDecimal(s) == s # <<>> /\ \A x \in 1..Len(s) : IsDecimal(s[x])

\* 'n': a number between two quotes
QuotedNumber(s) ==
    Len(s) >= 3 /\ s[1] = "'" /\ s[Len(s)] = "'" /\ AllDecimal(SubSeq(s, 2, Len(s) - 1))

\* The first number written in a text that has one.
FirstNumber(s) ==
    LET i == MinOf({x \in 1..Len(s) : IsDecimal(s[x])})
        j == MaxOf({e \in i..Len(s) : \A x \in i..e : IsDecimal(s[x])})
    IN  DecimalNumber(SubSeq(s, i, j))

\* The cleaned tenures of the rows of the dataset that hold valid data.
ValidTenures ==
    LET IsValid(r) == ~r.Lama_Langganan.isna /\ strip(r.Lama_Langganan.text) # DataTidakValid
        rows == SelectSeq(df, IsValid)
    IN  [j \in 1..Len(rows) |-> rows[j].tenure_clean]

\* C16: a bare or quoted number n is cleaned to min(n, 26), the future-contract
\* phrase to 0, the invalid-data phrase to the median tenure of the dataset
\* being processed, other text with a number to its first number capped at
\* 26; every cleaned tenure is within 0..26.
C16_TenureRules ==
    \A i \in TenureCleaned :
        LET cell == df[i].Lama_Langganan
            s == strip(cell.text)
            t == df[i].tenure_clean
        IN  /\ t \in 0..26
            /\ ~cell.isna =>
                  /\ AllDecimal(s) => t = Min(DecimalNumber(s), 26)
                  /\ QuotedNumber(s) => t = Min(DecimalNumber(SubSeq(s, 2, Len(s) - 1)), 26)
                  /\ s = BerkontrakDiTahun2026 => t = 0
                  /\ (s = DataTidakValid /\ ValidTenures # <<>>) =>
                        4 * t = Median4(ValidTenures)
                  /\ (/\ ~AllDecimal(s) /\ ~QuotedNumber(s)
                      /\ ~Contains(Berkontrak, s)
                      /\ ~Contains(TidakValid, s) /\ ~Contains(Invalid, s)
                      /\ \E x \in 1..Len(s) : IsDecimal(s[x]))
                     => t = Min(FirstNumber(s), 26)


----------------------------------------------------------------------------
(* Reading the raw revenue and bandwidth columns (clean_and_standardize of  *)
(* cvo_nbo_v30.py and cvo_ml_engine.py, run_pipeline of cvo_v5_pipeline.py, *)
(* process_data of cvo_nbo_advanced_v4_2.py)                                *)

\* A revenue cell as the file reader types it: a text, an integer, a float
\* (here always a whole amount) or a missing value.
RevenueCells ==
    LET RevenueTokens ==
            {<<"R", "p", " ">>,
             <<"5">>,
             <<"5", ".", "0", "0", "0">>,
             <<".", "0", "0", "0">>,
             <<"x">>,
             <<" ">>}
    IN  {[dtype |-> "str", text |-> s, value |-> 0] :
            s \in {t \in TokenStrings(RevenueTokens, MaxTokens) :
                      Len(SelectSeq(t, IsDecimal)) < 10}}
        \cup {[dtype |-> d, text |-> <<>>, value |-> v] : d \in {"int", "float"}, v \in {0, 5000000}}
        \cup {[dtype |-> "nan", text |-> <<>>, value |-> 0]}

BandwidthFixCells ==
    {NaN, Text(TidakAda), Text(<<"5", " ", "I", "P">>), Text(<<"2", "0", " ", "M", "B", "P", "S">>), Text(<<"1", " ", "G", "B", "P", "S">>),
     Text(<<"5", "1", "2", " ", "K", "B", "P", "S">>), Text(<<"5">>), Text(<<"0", ".", "5", " ", "M", "B", "P", "S">>), Text(<<"x">>)}

\* One customer with any revenue cell, or up to two with any bandwidth cells.
IngestFrames ==
    {<<[pendapatan |-> r, bandwidth_fix |-> NaN]>> : r \in RevenueCells}
    \cup {[i \in 1..Len(col) |->
               [pendapatan |-> [dtype |-> "int", text |-> <<>>, value |-> 5000000],
                bandwidth_fix |-> col[i]]] :
            col \in SeqsUpTo(BandwidthFixCells, MaxCustomers) \ {<<>>}}

\* str(n) of a natural number
RECURSIVE IntText(_)
IntText(n) ==
    LET DecimalDigits == <<"0", "1", "2", "3", "4", "5", "6", "7", "8", "9">>
    IN  IF n < 10 THEN <<DecimalDigits[n + 1]>>
        ELSE IntText(n \div 10) \o <<DecimalDigits[(n % 10) + 1]>>

\* Series.astype(str): a float is printed with its decimal point, a missing
\* value as "nan".
astype_str(cell) ==
    IF cell.dtype = "str" THEN cell.text
    ELSE IF cell.dtype = "int" THEN IntText(cell.value)
    ELSE IF cell.dtype = "float" THEN IntText(cell.value) \o <<".", "0">>
    ELSE <<"n", "a", "n">>

\* .str.replace(r'[^\d]', '', regex=True), then pd.to_numeric(errors='coerce')
\* and fillna(0): the digits that are left read as one number, 0 when none is.
clean_revenue(cell) == DecimalNumber(SelectSeq(astype_str(cell), IsDecimal))

\* str.lower
lower(s) ==
    LET LowerCase == <<"a", "b", "c", "d", "e", "f", "g", "h", "i", "j", "k", "l", "m",
                       "n", "o", "p", "q", "r", "s", "t", "u", "v", "w", "x", "y", "z">>
        UpperCase == <<"A", "B", "C", "D", "E", "F", "G", "H", "I", "J", "K", "L", "M",
                       "N", "O", "P", "Q", "R", "S", "T", "U", "V", "W", "X", "Y", "Z">>
        LowerChar(c) ==
            IF \E k \in 1..26 : UpperCase[k] = c
            THEN LowerCase[CHOOSE k \in 1..26 : UpperCase[k] = c]
            ELSE c
    IN  [i \in 1..Len(s) |-> LowerChar(s[i])]

\* parse_bandwidth_fix (cvo_nbo_v30), lines 248-272: the number read from the
\* text, in kbps, as parse_bandwidth_fix above takes it. float() of the first
\* run of digits and points fails on a run without digits or with two points.
read_bandwidth_fix(bw_value) ==
    IF bw_value.isna \/ lower(bw_value.text) \in {<<"t", "i", "d", "a", "k", " ", "a", "d", "a">>, <<"n", "o", "n", "e">>, <<"n", "a", "n">>, <<"-">>}
    THEN [digits |-> TRUE, mbps |-> 0]
    ELSE LET replaced == [i \in 1..Len(bw_value.text) |->
                            IF bw_value.text[i] = "," THEN "." ELSE lower(bw_value.text)[i]]
             bw_str == strip(replaced)
             InNumber(c) == IsDecimal(c) \/ c = "."
             starts == {i \in 1..Len(bw_str) : InNumber(bw_str[i])}
             first == MinOf(starts)
             last == MaxOf({e \in first..Len(bw_str) : \A x \in first..e : InNumber(bw_str[x])})
             number == SubSeq(bw_str, first, last)
             points == {i \in 1..Len(number) : number[i] = "."}
             point == IF points = {} THEN Len(number) + 1 ELSE MinOf(points)
             whole == SubSeq(number, 1, point - 1)
             fraction == SubSeq(number, point + 1, Len(number))
             \* 1000 * float(numbers[0]), for at most three decimals
             value == DecimalNumber(whole) * 1000
                        + DecimalNumber(fraction) * Pow10(3 - Len(fraction))
             Has(unit) == Contains(unit, bw_str)
         IN  IF starts = {} THEN [digits |-> FALSE, mbps |-> 0]
             ELSE IF Cardinality(points) > 1 \/ Len(number) = Cardinality(points)
             THEN [digits |-> FALSE, mbps |-> 0]
             ELSE IF Has(<<"g", "b", "p", "s">>) \/ Has(<<"g", "b">>) THEN [digits |-> TRUE, mbps |-> value * 1000]
             ELSE IF Has(<<"k", "b", "p", "s">>) \/ Has(<<"k", "b">>) THEN [digits |-> TRUE, mbps |-> value \div 1000]
             ELSE IF Has(<<"m", "b", "p", "s">>) \/ Has(<<"m", "b">>) THEN [digits |-> TRUE, mbps |-> value]
             ELSE IF Has(<<"p", "a", "i", "r">>) THEN [digits |-> TRUE, mbps |-> value * 100]
             ELSE [digits |-> TRUE, mbps |-> value]

\* parse_bw of run_pipeline (cvo_v5_pipeline): the first run of digits, in Mbps.
parse_bw(val) ==
    IF val.isna \/ val = Text(TidakAda) THEN 0
    ELSE LET match == re_search_number(val.text)
         IN  IF match.found THEN DecimalNumber(match.group1) ELSE 0

\* clean_and_standardize of cvo_nbo_v30 and _clean_revenue_columns of
\* cvo_ml_engine: the revenue column is replaced by its cleaned values, a
\* numeric column.
clean_revenue_columns ==
    /\ pc = "ingest"
    /\ variant \in {"nbo_v30", "ml_engine"}
    /\ df' = [i \in 1..Len(df) |->
                [pendapatan |-> [dtype |-> "int", text |-> <<>>,
                                 value |-> clean_revenue(df[i].pendapatan)],
                 bandwidth_fix |-> df[i].bandwidth_fix]]
    /\ pc' = "revenue"
    /\ UNCHANGED <<variant, has_kategori, cluster_thresholds>>
    /\ UNCHANGED <<sales_vars, score_vars, nbo_vars, run_vars>>

\* clean_and_standardize of cvo_nbo_v30, after the revenue: bandwidth_mbps and
\* bandwidth_cluster from parse_bandwidth_fix.
parse_bandwidth_fix_column ==
    /\ pc = "revenue"
    /\ variant = "nbo_v30"
    /\ df' = [i \in 1..Len(df) |->
                LET bw_data == parse_bandwidth_fix(read_bandwidth_fix(df[i].bandwidth_fix))
                IN  [pendapatan |-> df[i].pendapatan,
                     bandwidth_fix |-> df[i].bandwidth_fix,
                     bandwidth_mbps |-> bw_data[1],
                     bandwidth_cluster |-> bw_data[2]]]
    /\ pc' = "clustered"
    /\ UNCHANGED <<variant, has_kategori, cluster_thresholds>>
    /\ UNCHANGED <<sales_vars, score_vars, nbo_vars, run_vars>>

\* run_pipeline of cvo_v5_pipeline: bandwidth_mbps from parse_bw,
\* bandwidth_cluster from clean_bandwidth.
parse_bw_column ==
    /\ pc = "ingest"
    /\ variant = "v5"
    /\ df' = [i \in 1..Len(df) |->
                [pendapatan |-> df[i].pendapatan,
                 bandwidth_fix |-> df[i].bandwidth_fix,
                 bandwidth_mbps |-> parse_bw(df[i].bandwidth_fix),
                 bandwidth_cluster |-> clean_bandwidth(parse_bw(df[i].bandwidth_fix))]]
    /\ pc' = "clustered"
    /\ UNCHANGED <<variant, has_kategori, cluster_thresholds>>
    /\ UNCHANGED <<sales_vars, score_vars, nbo_vars, run_vars>>

\* process_data of cvo_nbo_advanced_v4_2: bandwidth_clean from
\* parse_bandwidth_smart, and the quadrant assign_strategy puts the customer
\* in, which stands as its cluster.
assign_strategy_column ==
    /\ pc = "ingest"
    /\ variant = "v4_2"
    /\ LET parsed == [i \in 1..Len(df) |-> parse_bandwidth_smart(df[i].bandwidth_fix)]
       IN  IF \E i \in 1..Len(df) : parsed[i].raised # ""
           THEN /\ pc' = "ValueError"
                /\ df' = df
           ELSE /\ pc' = "clustered"
                /\ df' = [i \in 1..Len(df) |->
                            [pendapatan |-> df[i].pendapatan,
                             bandwidth_fix |-> df[i].bandwidth_fix,
                             bandwidth_mbps |-> parsed[i].value[1],
                             bandwidth_type |-> parsed[i].value[2],
                             bandwidth_cluster |->
                                 assign_strategy(df[i].pendapatan.value, parsed[i].value[1])[1]]]
    /\ UNCHANGED <<variant, has_kategori, cluster_thresholds>>
    /\ UNCHANGED <<sales_vars, score_vars, nbo_vars, run_vars>>

InitIngest ==
    /\ variant \in {"nbo_v30", "ml_engine", "v5", "v4_2"}
    /\ df \in IngestFrames
    /\ pc = "ingest"
    /\ has_kategori = FALSE /\ cluster_thresholds = <<>>
    /\ SalesUnused /\ ScoreUnused /\ NboUnused /\ RunUnused

NextIngest ==
    \/ clean_revenue_columns
    \/ parse_bandwidth_fix_column
    \/ parse_bw_column
    \/ assign_strategy_column

SpecIngest == InitIngest /\ [][NextIngest]_vars

\* The text is a currency amount: an optional "Rp ", then digits with points
\* as thousand separators.
WrittenAmount(s) ==
    LET body == IF Len(s) >= 3 /\ SubSeq(s, 1, 3) = <<"R", "p", " ">> THEN SubSeq(s, 4, Len(s)) ELSE s
    IN  /\ body # <<>>
        /\ IsDecimal(body[1]) /\ IsDecimal(body[Len(body)])
        /\ \A x \in 1..Len(body) : IsDecimal(body[x]) \/ body[x] = "."

\* C17: cleaning a revenue cell gives the amount written in it with the
\* currency symbol and the thousand separators removed, 0 for an empty or
\* unparseable cell, and the amount itself for a cell that already holds a
\* number, whatever its type.
C17_RevenueCleaning ==
    [][clean_revenue_columns =>
        \A i \in 1..Len(df) :
            LET cell == df[i].pendapatan
                cleaned == df'[i].pendapatan.value
            IN  /\ cell.dtype \in {"int", "float"} => cleaned = cell.value
                /\ cell.dtype = "nan" => cleaned = 0
                /\ cell.dtype = "str" =>
                      /\ WrittenAmount(cell.text) =>
                            cleaned = DecimalNumber(SelectSeq(cell.text, IsDecimal))
                      /\ (\A x \in 1..Len(cell.text) : ~IsDecimal(cell.text[x])) => cleaned = 0]_vars

\* A cell with the digits-then-IP shape and no bandwidth unit: a count of IP
\* addresses.
IsIPOnly(cell) ==
    LET s == upper(cell.text)
    IN  ~cell.isna /\ DigitsThenIP(s) /\ ~Contains(MBPS, s) /\ ~Contains(GBPS, s)

\* A cell without a value: null, empty or the sentinel.
IsNonConnectivity(cell) == cell.isna \/ cell.text = <<>> \/ cell.text = TidakAda

\* The clusters whose members are told apart by their Mbps figure.
BandwidthComparable ==
    {"ATM_IOT", "UMKM_SMALL", "CORPORATE", "ENTERPRISE",
     "MICRO", "LOW", "MID", "HIGH",
     "Star", "Risk", "Sniper", "Incubator"}

\* C18: a customer whose cell is a count of IP addresses is in no cluster of
\* bandwidth-comparable customers and in no cluster that holds a customer
\* without a value.
C18_IPOnlyHasItsOwnCluster ==
    pc = "clustered" =>
        \A i \in 1..Len(df) :
            IsIPOnly(df[i].bandwidth_fix) =>
                /\ df[i].bandwidth_cluster \notin BandwidthComparable
                /\ \A j \in 1..Len(df) :
                      IsNonConnectivity(df[j].bandwidth_fix) =>
                          df[i].bandwidth_cluster # df[j].bandwidth_cluster


\* The products a company has, and the entry of the matrix for a pair.
ProductsOf(nama) == {GroupColumn(df, nama, "ProdukBaru")[i] :
                        i \in 1..Len(GroupColumn(df, nama, "ProdukBaru"))}

Entry(a, b) ==
    IF a \in DOMAIN co_occurrence /\ b \in DOMAIN co_occurrence[a]
    THEN co_occurrence[a][b] ELSE 0

\* C19: for two products a and b the matrix holds, in both directions, the
\* number of customers whose product list contains both, each customer
\* counted once; no product has an entry with itself.
C19_CoOccurrenceCountsCustomers ==
    pc = "nbo_ready" =>
        \A a \in {df[i].ProdukBaru : i \in 1..Len(df)} :
            /\ Entry(a, a) = 0
            /\ \A b \in {df[i].ProdukBaru : i \in 1..Len(df)} \ {a} :
                  /\ Entry(a, b) = Entry(b, a)
                  /\ Entry(a, b) =
                        Cardinality({nama \in CompanyNames(df) :
                                        {a, b} \subseteq ProductsOf(nama)})


\* A company whose revenue, bandwidth and tenure cells were all empty.
AllMissing(c) ==
    /\ c.revenue = 0
    /\ c.bandwidth_clean = <<0, "Non-Connectivity">>
    /\ c.tenure_clean = 3

\* C20: with an empty catalog, or for a customer whose revenue, bandwidth and
\* tenure are all missing, process_data still emits the customer's record:
\* three slots, filled with a product, a score and a rationale as far as the
\* catalog reaches and empty beyond it, and the strategy of a customer without
\* revenue and bandwidth.
C20_DegenerateInputsStillGetARecord ==
    \A m \in 1..Len(recommendations) :
        LET rec == recommendations[m]
            c == CompanyData(df, rec.nama)
        IN  (products = <<>> \/ AllMissing(c)) =>
                /\ Len(rec.NBO) = 3
                /\ \A k \in 1..3 :
                      IF k <= Len(products)
                      THEN /\ rec.NBO[k].Product \in CatalogNames
                           /\ rec.NBO[k].Score \in 1..(100 * total_companies)
                           /\ rec.NBO[k].Reasoning # <<>>
                      ELSE SlotEmpty(rec.NBO[k])
                /\ AllMissing(c) => rec.strategy = <<"Incubator", "AUTOMATE">>

\* A record of a customer with everything missing, with a recommendation
\* that has no reason but the fixed sentence.
C20_Witness ==
    /\ recommendations # <<>>
    /\ AllMissing(CompanyData(df, recommendations[1].nama))
    /\ \E k \in 1..3 :
          recommendations[1].NBO[k].Reasoning = <<"Rekomendasi berdasarkan profil lengkap">>

\* A record made with an empty catalog: all three slots empty.
C20_WitnessEmptyCatalog ==
    /\ recommendations # <<>>
    /\ products = <<>>
    /\ \A k \in 1..3 : SlotEmpty(LastRecord.NBO[k])


\* C21: every product in the top-3 list of a customer with revenue 0 is of
\* the cheapest cost tier.
C21_ZeroRevenueOnlyCheapestTier ==
    \A m \in 1..Len(recommendations) :
        CompanyData(df, recommendations[m].nama).revenue = 0 =>
            \A k \in 1..Len(recommendations[m].top3) :
                recommendations[m].top3[k][1].cost_tier = 1

\* The product p with another complexity and no Retention tag: equal to p on
\* every factor but the tenure one.
OtherComplexity(p, x) == [p EXCEPT !.complexity = x, !.tags = {}]

\* C22: for a customer of tenure 0 the tenure factor credits a Simple product
\* more than a Medium or Complex product without the Retention tag, and the
\* Simple product scores strictly higher than the product that differs from
\* it in complexity only (so it is sorted first); for a customer of tenure
\* above 5 a Medium or Complex product gets the factor's full 10 points.
C22_TenureFit ==
    pc = "scored" =>
        /\ (company.tenure_clean = 0 /\ product.complexity = "Simple") =>
              \A x \in {"Medium", "Complex"} :
                  /\ tenure_credit(company, product)
                        > tenure_credit(company, OtherComplexity(product, x))
                  /\ score > calculate_nbo_score_v4_2(company, OtherComplexity(product, x),
                                                      co_occurrence, total_companies)
        /\ (company.tenure_clean > 5 /\ product.complexity \in {"Medium", "Complex"}) =>
              score_factors[8] = 10 * total_companies

C22_Witness ==
    /\ pc = "scored"
    /\ company.tenure_clean = 0
    /\ product.complexity = "Simple"
    /\ product.tags = {}
    /\ score_factors[8] = 10 * total_companies
    /\ score = calculate_nbo_score_v4_2(company, OtherComplexity(product, "Complex"),
                                        co_occurrence, total_companies)
                + 7 * total_companies


----------------------------------------------------------------------------
(* SpecPredict: train_models and generate_predictions                      *)
(*                                                                         *)
(* The frame is the one create_strategic_matrices leaves: of its columns   *)
(* the rows keep those the two steps branch on.  A fitted model is the     *)
(* function it computes; the feature vector of a row is abstracted to the  *)
(* row itself, so equal rows get equal predictions.  Scores are kept       *)
(* times 200 (0.3 is 60), so that half of a score is an integer.           *)

MaxTail == 2

\* Sizes of the block of equal rows a frame starts with, around the number
\* of positive examples the fit asks for.
BulkSizes == {9, 10, 11}

\* predict_proba(X)[:, 1], times 200: 0, 0.3, 0.6 and 1.
ProbaDomain == {0, 60, 120, 200}

\* clv_model.predict(X)
ClvDomain == {1000, 2000}

\* The rows of self.df_features, by pipeline class.
FeatureRows(v) ==
    IF v = "v21"
    THEN {[exclude_upsell |-> 0, kuadran |-> "ZONA_SNIPER"],
          [exclude_upsell |-> 0, kuadran |-> "AREA_RISIKO"],
          [exclude_upsell |-> 0, kuadran |-> "INKUBATOR"],
          [exclude_upsell |-> 1, kuadran |-> "DIKECUALIKAN"]}
    ELSE {[bandwidth_cluster |-> "CORPORATE", kuadran |-> "CORPORATE SNIPER"],
          [bandwidth_cluster |-> "CORPORATE", kuadran |-> "CORPORATE RISIKO"],
          [bandwidth_cluster |-> "CORPORATE", kuadran |-> "CORPORATE PEMULA"],
          [bandwidth_cluster |-> "ATM_IOT", kuadran |-> "ATM/IoT"]}

\* Frames with customers of two kinds at least: a block of equal rows, then
\* a few rows of which one differs from those of the block.
FeatureFrames(v) ==
    {frame \in {[i \in 1..n |-> bulk] \o tail :
                    bulk \in FeatureRows(v), n \in BulkSizes,
                    tail \in SeqsUpTo(FeatureRows(v), MaxTail)} :
        \E i \in 1..Len(frame) : frame[i] # frame[1]}

\* self.upsell_model = None
None == [fitted |-> FALSE, predict |-> <<>>]

\* The models fit(X, y) can return for the rows X.
Fitted(X, outputs) == {[fitted |-> TRUE, predict |-> f] : f \in [X -> outputs]}

\* Number of rows of the frame that satisfy the test.
CountRows(frame, Test(_)) == Cardinality({i \in 1..Len(frame) : Test(frame[i])})

\* train_test_split(..., stratify=y) of scikit-learn raises ValueError when
\* a class of y has a single member (positives of n rows; with the 9 rows or
\* more of a frame the test part has room for both classes).
StratifyRaises(positives, n) == positives = 1 \/ n - positives = 1

\* word in str(x), for the quadrant labels classify_customer returns and the
\* segment names of the smart classifier.
str_contains(x, word) ==
    \/ word = "SNIPER" /\ x = "CORPORATE SNIPER"
    \/ word = "RISIKO" /\ x = "CORPORATE RISIKO"
    \/ word = "BANKING" /\ x = "BANKING & FINANCIAL"
    \/ word = "EDUCATION" /\ x \in {"EDUCATION_UNIV", "EDUCATION_SCHOOL"}

\* train_models of cvo_ml_indonesia_v21: both splits are made before the
\* number of positives is looked at.
train_models_v21 ==
    LET rows == {df[i] : i \in 1..Len(df)}
        y_upsell == CountRows(df, LAMBDA r : r.kuadran = "ZONA_SNIPER" /\ r.exclude_upsell = 0)
        y_crosssell == CountRows(df, LAMBDA r :
                          r.kuadran \in {"AREA_RISIKO", "UMKM_POTENSIAL", "BACKBONE_OPTIMAL"})
    IN  IF StratifyRaises(y_upsell, Len(df)) \/ StratifyRaises(y_crosssell, Len(df))
        THEN /\ pc' = "ValueError"
             /\ UNCHANGED <<upsell_model, crosssell_model, clv_model>>
        ELSE /\ upsell_model' \in (IF y_upsell > 10 THEN Fitted(rows, ProbaDomain) ELSE {None})
             /\ crosssell_model' \in (IF y_crosssell > 10 THEN Fitted(rows, ProbaDomain) ELSE {None})
             /\ clv_model' \in Fitted(rows, ClvDomain)
             /\ pc' = "trained"

\* train_models of cvo_nbo_v30: the split is made once there are enough
\* positives; no cross-sell model is trained.
train_models_nbo_v30 ==
    LET eligible == SelectSeq(df, LAMBDA r : r.bandwidth_cluster \in {"CORPORATE", "UMKM_SMALL"})
        df_eligible == IF Len(eligible) < 100 THEN df ELSE eligible
        rows == {df[i] : i \in 1..Len(df)}
        y_upsell == CountRows(df_eligible, LAMBDA r : str_contains(r.kuadran, "SNIPER"))
    IN  IF y_upsell >= 10 /\ StratifyRaises(y_upsell, Len(df_eligible))
        THEN /\ pc' = "ValueError"
             /\ UNCHANGED <<upsell_model, crosssell_model, clv_model>>
        ELSE /\ upsell_model' \in (IF y_upsell >= 10 THEN Fitted(rows, ProbaDomain) ELSE {None})
             /\ clv_model' \in Fitted(rows, ClvDomain)
             /\ pc' = "trained"
             /\ UNCHANGED crosssell_model

train_models ==
    /\ pc = "matrices"
    /\ IF variant = "v21" THEN train_models_v21 ELSE train_models_nbo_v30
    /\ UNCHANGED <<variant, has_kategori, df, cluster_thresholds, files, run>>
    /\ UNCHANGED <<sales_vars, score_vars, nbo_vars>>

\* pd.cut(x, bins=[0, 0.3, 0.6, 1.0], labels=[...]): the intervals are open
\* on the left and closed on the right; a value in none of them gets NaN.
pd_cut(x) ==
    IF 0 < x /\ x <= 60 THEN "Rendah"
    ELSE IF 60 < x /\ x <= 120 THEN "Sedang"
    ELSE IF 120 < x /\ x <= 200 THEN "Tinggi"
    ELSE "NaN"

\* Mutant: an excluded customer's cross-sell score is set to zero as well.
predict_v21_crosssell_zeroed(row, upsell, crosssell, clv) ==
    LET excluded == row.exclude_upsell = 1
        skor_peluang_upsell ==
            IF excluded THEN 0
            ELSE IF upsell.fitted THEN upsell.predict[row] ELSE 0
        skor_peluang_crosssell ==
            IF excluded THEN 0
            ELSE IF crosssell.fitted THEN crosssell.predict[row] ELSE 0
        clv_prediksi_12bulan == clv.predict[row]
    IN  [exclude_upsell |-> row.exclude_upsell, kuadran |-> row.kuadran,
         skor_peluang_upsell |-> skor_peluang_upsell,
         skor_peluang_crosssell |-> skor_peluang_crosssell,
         clv_prediksi_12bulan |-> clv_prediksi_12bulan,
         prioritas_upsell |-> pd_cut(skor_peluang_upsell),
         prioritas_crosssell |-> pd_cut(skor_peluang_crosssell),
         potensi_upsell |-> IF skor_peluang_upsell > 100 /\ ~excluded
                            THEN (clv_prediksi_12bulan * 30) \div 100 ELSE 0,
         potensi_crosssell |-> IF skor_peluang_crosssell > 100
                               THEN (clv_prediksi_12bulan * 25) \div 100 ELSE 0]

\* The columns generate_predictions of cvo_ml_indonesia_v21 gives a row.
predict_v21(row, upsell, crosssell, clv) ==
    LET excluded == row.exclude_upsell = 1
        upsell_proba == IF upsell.fitted THEN upsell.predict[row] ELSE 0
        crosssell_proba == IF crosssell.fitted THEN crosssell.predict[row] ELSE 0
        clv_prediksi_12bulan == clv.predict[row]
        \* Override: an excluded customer gets score 0, and half its cross-sell score
        skor_peluang_upsell == IF excluded THEN 0 ELSE upsell_proba
        skor_peluang_crosssell ==
            IF excluded THEN (crosssell_proba * 5) \div 10 ELSE crosssell_proba
    IN  [exclude_upsell |-> row.exclude_upsell, kuadran |-> row.kuadran,
         skor_peluang_upsell |-> skor_peluang_upsell,
         skor_peluang_crosssell |-> skor_peluang_crosssell,
         clv_prediksi_12bulan |-> clv_prediksi_12bulan,
         prioritas_upsell |-> pd_cut(skor_peluang_upsell),
         prioritas_crosssell |-> pd_cut(skor_peluang_crosssell),
         potensi_upsell |-> IF skor_peluang_upsell > 100 /\ ~excluded
                            THEN (clv_prediksi_12bulan * 30) \div 100 ELSE 0,
         potensi_crosssell |-> IF skor_peluang_crosssell > 100
                               THEN (clv_prediksi_12bulan * 25) \div 100 ELSE 0]

\* The columns generate_predictions of cvo_nbo_v30 gives a row.
predict_nbo_v30(row, upsell, clv) ==
    LET skor_upsell ==
            IF upsell.fitted THEN upsell.predict[row]
            \* Fallback: use heuristic based on kuadran
            ELSE IF str_contains(row.kuadran, "SNIPER") THEN 160
            ELSE IF str_contains(row.kuadran, "RISIKO") THEN 60
            ELSE 20
        clv_prediksi == clv.predict[row]
    IN  [bandwidth_cluster |-> row.bandwidth_cluster, kuadran |-> row.kuadran,
         skor_upsell |-> skor_upsell,
         clv_prediksi |-> clv_prediksi,
         prioritas |-> pd_cut(skor_upsell),
         potensi_revenue |-> IF skor_upsell > 100
                             THEN (clv_prediksi * 30) \div 100 ELSE 0]

generate_predictions ==
    /\ pc = "trained"
    /\ df' = [i \in 1..Len(df) |->
                IF variant = "v21"
                THEN predict_v21(df[i], upsell_model, crosssell_model, clv_model)
                ELSE predict_nbo_v30(df[i], upsell_model, clv_model)]
    /\ pc' = "predicted"
    /\ UNCHANGED <<variant, has_kategori, cluster_thresholds, run_vars>>
    /\ UNCHANGED <<sales_vars, score_vars, nbo_vars>>

InitPredict ==
    /\ variant \in {"v21", "nbo_v30"}
    /\ has_kategori = FALSE
    /\ df \in FeatureFrames(variant)
    /\ cluster_thresholds = <<>>
    /\ pc = "matrices"
    /\ upsell_model = None
    /\ crosssell_model = None
    /\ clv_model = None
    /\ files = <<>>
    /\ run = 0
    /\ SalesUnused /\ ScoreUnused /\ NboUnused

NextPredict ==
    \/ train_models
    \/ generate_predictions

SpecPredict == InitPredict /\ [][NextPredict]_vars

\* The columns of a row that were there before generate_predictions.
InputRow(row) ==
    IF variant = "v21"
    THEN [exclude_upsell |-> row.exclude_upsell, kuadran |-> row.kuadran]
    ELSE [bandwidth_cluster |-> row.bandwidth_cluster, kuadran |-> row.kuadran]

\* C23: after generate_predictions of cvo_ml_indonesia_v21 an excluded
\* customer has upsell score 0 and upsell potential 0, and its cross-sell
\* score is half of what the cross-sell model gives for it (0 without a
\* model), positive when that is positive; the other customers keep the
\* scores the models give (0 without a model).
C23_ExcludedCustomersScores ==
    (pc = "predicted" /\ variant = "v21") =>
        \A i \in 1..Len(df) :
            LET row == df[i]
                upsell_proba ==
                    IF upsell_model.fitted THEN upsell_model.predict[InputRow(row)] ELSE 0
                crosssell_proba ==
                    IF crosssell_model.fitted THEN crosssell_model.predict[InputRow(row)] ELSE 0
            IN  IF row.exclude_upsell = 1
                THEN /\ row.skor_peluang_upsell = 0
                     /\ row.potensi_upsell = 0
                     /\ 2 * row.skor_peluang_crosssell = crosssell_proba
                     /\ crosssell_proba > 0 => row.skor_peluang_crosssell > 0
                ELSE /\ row.skor_peluang_upsell = upsell_proba
                     /\ row.skor_peluang_crosssell = crosssell_proba

\* An excluded customer the cross-sell model scores above zero, next to a
\* customer that is not excluded.
C23_Witness ==
    /\ pc = "predicted" /\ variant = "v21"
    /\ crosssell_model.fitted
    /\ \E i, j \in 1..Len(df) :
          /\ df[i].exclude_upsell = 1
          /\ crosssell_model.predict[InputRow(df[i])] = 120
          /\ df[i].skor_peluang_crosssell = 60
          /\ df[j].exclude_upsell = 0
          /\ df[j].skor_peluang_crosssell > 0


\* The upsell score of a row after generate_predictions.
UpsellScore(row) ==
    IF variant = "v21" THEN row.skor_peluang_upsell ELSE row.skor_upsell

\* The frame has fewer customers of the upsell quadrant than the fit of the
\* upsell model asks for.
TooFewPositives ==
    IF variant = "v21"
    THEN CountRows(df, LAMBDA r : r.kuadran = "ZONA_SNIPER" /\ r.exclude_upsell = 0) <= 10
    ELSE CountRows(df, LAMBDA r : r.kuadran = "CORPORATE SNIPER") < 10

\* C24: with too few positive examples train_models and generate_predictions
\* complete, and every customer gets the proxy score of its quadrant: 0.8 in a
\* Sniper quadrant, 0.3 in a Risk quadrant, 0.1 otherwise.
C24_HeuristicScoreWithoutModel ==
    TooFewPositives =>
        /\ pc # "ValueError"
        /\ pc = "predicted" =>
              \A i \in 1..Len(df) :
                  UpsellScore(df[i]) =
                      IF df[i].kuadran \in {"ZONA_SNIPER", "CORPORATE SNIPER"} THEN 160
                      ELSE IF df[i].kuadran \in {"AREA_RISIKO", "CORPORATE RISIKO"} THEN 60
                      ELSE 20

\* C29: after generate_predictions every customer has one of the priority
\* labels Rendah, Sedang, Tinggi and an upsell score between 0 and 1.
C29_EveryCustomerHasPriority ==
    pc = "predicted" =>
        \A i \in 1..Len(df) :
            /\ UpsellScore(df[i]) \in 0..200
            /\ (IF variant = "v21" THEN df[i].prioritas_upsell ELSE df[i].prioritas)
                  \in {"Rendah", "Sedang", "Tinggi"}


----------------------------------------------------------------------------
(* SpecRun: a run of a pipeline from its input files to its output files   *)
(*                                                                         *)
(* cvo_nbo_advanced_v4_2 (main), cvo_nbo_v30 (the constructor, then        *)
(* run_pipeline) and cvo_v5_pipeline (the constructors, then               *)
(* run_pipeline).  The stages between the load and the export are one      *)
(* step here; the other specifications model them.  The three write their  *)
(* outputs the same way (DataFrame.to_excel on the path, open(path, 'w')   *)
(* and a dump): what is modelled is export_to_excel and export_to_json of  *)
(* v4_2, with "excel" and "json" for the spreadsheet and the text output.  *)
(* A file is absent, or holds what run number r wrote, all of it or the    *)
(* part written so far; the input files were written by run 0.             *)

Absent == [exists |-> FALSE, run |-> 0, complete |-> FALSE]

Written(r, complete) == [exists |-> TRUE, run |-> r, complete |-> complete]

InputFiles == {"data", "validation", "catalog"}

OutputFiles == {"excel", "json"}

\* The steps of a run after the load.
LaterStages == {"processed", "excel_open", "excel_saved", "json_open", "completed"}

\* ProductCatalog.load_catalog (cvo_nbo_v30) and _load_product_catalog
\* (cvo_v5_pipeline), called by the constructor: a catalog that cannot be
\* read is replaced, by the default catalog or by an empty frame.
load_catalog ==
    /\ pc = "start"
    /\ variant \in {"nbo_v30", "v5"}
    /\ products' = IF files["catalog"].exists THEN "catalog"
                   ELSE IF variant = "nbo_v30" THEN "default catalog"
                   ELSE "empty frame"
    /\ pc' = "constructed"
    /\ UNCHANGED <<variant, has_kategori, df, cluster_thresholds, run_vars>>
    /\ UNCHANGED <<sales_vars, score_vars, top3, strategy, recommendations>>

\* The first step of run_pipeline: load_data of cvo_nbo_v30 returns False and
\* run_pipeline returns; pd.read_excel of cvo_v5_pipeline raises.
load_data ==
    /\ pc = "constructed"
    /\ pc' = IF files["data"].exists THEN "loaded"
             ELSE IF variant = "nbo_v30" THEN "returned False"
             ELSE "FileNotFoundError"
    /\ UNCHANGED <<variant, has_kategori, df, cluster_thresholds, run_vars>>
    /\ UNCHANGED <<sales_vars, score_vars, nbo_vars>>

\* The three loads of main (cvo_nbo_advanced_v4_2): pd.read_excel raises on
\* a missing file and main catches the exception.
main_load ==
    /\ pc = "start"
    /\ variant = "v4_2"
    /\ IF \A f \in InputFiles : files[f].exists
       THEN pc' = "loaded" /\ products' = "catalog"
       ELSE pc' = "ERROR" /\ UNCHANGED products
    /\ UNCHANGED <<variant, has_kategori, df, cluster_thresholds, run_vars>>
    /\ UNCHANGED <<sales_vars, score_vars, top3, strategy, recommendations>>

\* process_data, or clean_and_standardize up to generate_predictions.
process_data ==
    /\ pc = "loaded"
    /\ pc' = "processed"
    /\ UNCHANGED <<variant, has_kategori, df, cluster_thresholds, run_vars>>
    /\ UNCHANGED <<sales_vars, score_vars, nbo_vars>>

\* export_to_excel: df.to_excel(output_path) opens the path for writing, which
\* empties the file, and saves the workbook into it.
export_to_excel ==
    /\ \/ /\ pc = "processed"
          /\ files' = [files EXCEPT !["excel"] = Written(run, FALSE)]
          /\ pc' = "excel_open"
       \/ /\ pc = "excel_open"
          /\ files' = [files EXCEPT !["excel"] = Written(run, TRUE)]
          /\ pc' = "excel_saved"
    /\ UNCHANGED <<variant, has_kategori, df, cluster_thresholds>>
    /\ UNCHANGED <<upsell_model, crosssell_model, clv_model, run>>
    /\ UNCHANGED <<sales_vars, score_vars, nbo_vars>>

\* export_to_json: open(output_path, 'w') empties the file, json.dump writes
\* into it piece by piece.
export_to_json ==
    /\ \/ /\ pc = "excel_saved"
          /\ files' = [files EXCEPT !["json"] = Written(run, FALSE)]
          /\ pc' = "json_open"
       \/ /\ pc = "json_open"
          /\ files' = [files EXCEPT !["json"] = Written(run, TRUE)]
          /\ pc' = "completed"
    /\ UNCHANGED <<variant, has_kategori, df, cluster_thresholds>>
    /\ UNCHANGED <<upsell_model, crosssell_model, clv_model, run>>
    /\ UNCHANGED <<sales_vars, score_vars, nbo_vars>>

\* An exception while a file is written (the disk is full, the file is
\* locked), or the interruption of the run: main catches Exception and
\* prints it, the other two let it end the run.  No step undoes a write.
export_fails ==
    /\ pc \in {"processed", "excel_open", "excel_saved", "json_open"}
    /\ pc' = "ERROR"
    /\ UNCHANGED <<variant, has_kategori, df, cluster_thresholds, run_vars>>
    /\ UNCHANGED <<sales_vars, score_vars, nbo_vars>>

\* The program is started again, on the same directory.
next_run ==
    /\ pc \in {"completed", "ERROR", "returned False", "FileNotFoundError"}
    /\ run < MaxRuns
    /\ run' = run + 1
    /\ pc' = "start"
    /\ products' = "None"
    /\ UNCHANGED <<variant, has_kategori, df, cluster_thresholds>>
    /\ UNCHANGED <<upsell_model, crosssell_model, clv_model, files>>
    /\ UNCHANGED <<sales_vars, score_vars, top3, strategy, recommendations>>

InitRun ==
    /\ variant \in {"v4_2", "nbo_v30", "v5"}
    /\ has_kategori = FALSE
    /\ df = <<>>
    /\ cluster_thresholds = <<>>
    /\ pc = "start"
    /\ files \in {f \in [InputFiles \cup OutputFiles -> {Absent, Written(0, TRUE)}] :
                    \A o \in OutputFiles : f[o] = Absent}
    /\ run = 1
    /\ upsell_model = <<>> /\ crosssell_model = <<>> /\ clv_model = <<>>
    /\ products = "None"
    /\ top3 = <<>> /\ strategy = <<>> /\ recommendations = <<>>
    /\ SalesUnused /\ ScoreUnused

NextRun ==
    \/ load_catalog
    \/ load_data
    \/ main_load
    \/ process_data
    \/ export_to_excel
    \/ export_to_json
    \/ export_fails
    \/ next_run

SpecRun == InitRun /\ [][NextRun]_vars

\* C25: when the customer input or the product catalog cannot be read, the
\* run stops at the load: no later stage is reached and the run writes no
\* output file.
C25_FailedLoadAbortsTheRun ==
    (~files["data"].exists \/ ~files["catalog"].exists) =>
        /\ pc \notin LaterStages
        /\ \A o \in OutputFiles : ~(files[o].exists /\ files[o].run = run)

\* C26: an output file is absent, or holds the complete result of a run
\* (the previous one or this one), and the two output files that exist hold
\* the results of the same run.
C26_OutputFilesAreWhole ==
    /\ \A o \in OutputFiles : files[o].exists => files[o].complete
    /\ (files["excel"].exists /\ files["json"].exists) =>
            files["excel"].run = files["json"].run


----------------------------------------------------------------------------
(* SpecTrust: the Revenue x Tenure matrix                                  *)
(*                                                                         *)
(* The second matrix of create_strategic_matrices (cvo_ml_indonesia and    *)
(* cvo_ml_indonesia_v21) and create_revenue_tenure_matrix                  *)
(* (cvo_v4_pipeline, whose columns revenue, tenure_years and               *)
(* revenue_tenure_quadrant are named pendapatan, masa_berlangganan and     *)
(* kuadran_matriks_2 here).  Medians are kept times 4.                     *)

TrustRows == [pendapatan : {100, 200}, masa_berlangganan : {12, 36}, exclude_upsell : {0, 1}]

\* self.thresholds as create_strategic_matrices has filled it when the second
\* matrix is made.
GlobalThresholds(rows) ==
    [global |-> [median_pendapatan |-> Median4(Column(rows, "pendapatan")),
                 median_tenure |-> Median4(Column(rows, "masa_berlangganan"))]]

\* klasifikasi_tenure of cvo_ml_indonesia_v21.
klasifikasi_tenure_v21(row, thresholds) ==
    LET pendapatan_tinggi == 4 * row.pendapatan >= thresholds["global"].median_pendapatan
        tenure_lama == 4 * row.masa_berlangganan >= thresholds["global"].median_tenure
    IN  IF row.exclude_upsell = 1 THEN "DIKECUALIKAN"
        ELSE IF pendapatan_tinggi /\ tenure_lama THEN "JUARA"
        ELSE IF pendapatan_tinggi /\ ~tenure_lama THEN "POTENSI_TINGGI"
        ELSE IF ~pendapatan_tinggi /\ tenure_lama THEN "SETIA_HARGA_HEMAT"
        ELSE "PELANGGAN_BARU"

\* get_quadrant of cvo_v4_pipeline.
get_quadrant(row, revenue_median, tenure_median) ==
    LET rev == 4 * row.pendapatan
        tenure == 4 * row.masa_berlangganan
    IN  IF rev >= revenue_median /\ tenure >= tenure_median THEN "SULTAN LOYAL"
        ELSE IF rev >= revenue_median /\ tenure < tenure_median THEN "ORANG KAYA BARU"
        ELSE IF rev < revenue_median /\ tenure >= tenure_median THEN "SAHABAT HEMAT"
        ELSE "PEMULA"

\* The second matrix is made for the whole frame.  klasifikasi_tenure of
\* cvo_ml_indonesia reads self.thresholds['median_pendapatan'], a key
\* self.thresholds does not have: the first row raises KeyError.
klasifikasi_tenure ==
    /\ pc = "matrix 1"
    /\ IF variant = "indonesia" /\ "median_pendapatan" \notin DOMAIN cluster_thresholds
          /\ df # <<>>
       THEN df' = df /\ pc' = "KeyError"
       ELSE /\ df' = [i \in 1..Len(df) |->
                        [pendapatan |-> df[i].pendapatan,
                         masa_berlangganan |-> df[i].masa_berlangganan,
                         exclude_upsell |-> df[i].exclude_upsell,
                         kuadran_matriks_2 |->
                            IF variant = "v4"
                            THEN get_quadrant(df[i], Median4(Column(df, "pendapatan")),
                                              Median4(Column(df, "masa_berlangganan")))
                            ELSE klasifikasi_tenure_v21(df[i], cluster_thresholds)]]
            /\ pc' = "matrix 2"
    /\ UNCHANGED <<variant, has_kategori, cluster_thresholds, run_vars>>
    /\ UNCHANGED <<sales_vars, score_vars, nbo_vars>>

InitTrust ==
    /\ variant \in {"indonesia", "v21", "v4"}
    /\ has_kategori = FALSE
    /\ df \in SeqsUpTo(TrustRows, MaxCustomers)
    /\ cluster_thresholds = IF variant = "v4" \/ df = <<>> THEN <<>> ELSE GlobalThresholds(df)
    /\ pc = "matrix 1"
    /\ SalesUnused /\ ScoreUnused /\ NboUnused /\ RunUnused

NextTrust == klasifikasi_tenure

SpecTrust == InitTrust /\ [][NextTrust]_vars

\* The four labels of the Trust matrix, by (revenue >= median revenue,
\* tenure >= median tenure).
TrustLabel(high_revenue, long_tenure) ==
    IF variant = "v4"
    THEN (IF high_revenue /\ long_tenure THEN "SULTAN LOYAL"
          ELSE IF high_revenue THEN "ORANG KAYA BARU"
          ELSE IF long_tenure THEN "SAHABAT HEMAT" ELSE "PEMULA")
    ELSE (IF high_revenue /\ long_tenure THEN "JUARA"
          ELSE IF high_revenue THEN "POTENSI_TINGGI"
          ELSE IF long_tenure THEN "SETIA_HARGA_HEMAT" ELSE "PELANGGAN_BARU")

\* C27: the Trust matrix step completes, and gives every customer the one of
\* the four labels that its pair (revenue >= median revenue, tenure >= median
\* tenure) determines.
C27_TrustMatrixFourLabels ==
    /\ pc # "KeyError"
    /\ pc = "matrix 2" =>
          \A i \in 1..Len(df) :
              df[i].kuadran_matriks_2 =
                  TrustLabel(4 * df[i].pendapatan >= Median4(Column(df, "pendapatan")),
                             4 * df[i].masa_berlangganan
                                 >= Median4(Column(df, "masa_berlangganan")))


----------------------------------------------------------------------------
(* SpecClassify: SmartCustomerClassifier.classify                          *)
(*                                                                         *)
(* A customer name is reduced to the one keyword of the classifier that    *)
(* occurs in it ("" for none), whether the name starts with it and whether *)
(* PT or CV stands next to it.  Bandwidth is in kbps (Mbps(n)), confidence *)
(* in hundredths.  The blank in front of some quadrant labels is dropped.  *)

SegmentDomain ==
    {"SELULAR OPERATOR PROVIDER", "DATA COMM OPERATOR", "BANKING & FINANCIAL",
     "GOVERNMENT", "EDUCATION_UNIV", "EDUCATION_SCHOOL", "HEALTH CARE",
     "MANUFACTURE", "ENERGY UTILITY MINING", "TRANSPORTATION", "NATURAL RESOURCES",
     "RETAIL DISTRIBUTION", "HOSPITALITY", "UMKM & RETAIL", "UNKNOWN"}

\* confidence_weight of the pattern a keyword belongs to, one or two keywords
\* per pattern.
PATTERNS ==
    [k \in {"DINAS", "KEMENTERIAN"} |-> [segmen |-> "GOVERNMENT", confidence_weight |-> 95]]
    @@ ("BANK" :> [segmen |-> "BANKING & FINANCIAL", confidence_weight |-> 95])
    @@ ("UNIVERSITAS" :> [segmen |-> "EDUCATION_UNIV", confidence_weight |-> 90])
    @@ ("SMK" :> [segmen |-> "EDUCATION_SCHOOL", confidence_weight |-> 88])
    @@ [k \in {"RUMAH SAKIT", "KLINIK"} |-> [segmen |-> "HEALTH CARE", confidence_weight |-> 80]]
    @@ ("KERETA API" :> [segmen |-> "TRANSPORTATION", confidence_weight |-> 92])
    @@ ("TELKOMSEL" :> [segmen |-> "SELULAR OPERATOR PROVIDER", confidence_weight |-> 98])
    @@ ("PUPUK" :> [segmen |-> "NATURAL RESOURCES", confidence_weight |-> 82])
    @@ ("PLN" :> [segmen |-> "ENERGY UTILITY MINING", confidence_weight |-> 88])
    @@ ("MEDIA" :> [segmen |-> "MEDIA & ENTERTAINMENT", confidence_weight |-> 80])
    @@ ("HOTEL" :> [segmen |-> "HOSPITALITY", confidence_weight |-> 82])
    @@ ("PROPERTY" :> [segmen |-> "PROPERTY", confidence_weight |-> 78])
    @@ ("KONSULTAN" :> [segmen |-> "CONSULTANT, CONTRACT", confidence_weight |-> 70])

NameDomain ==
    {[keyword |-> "", starts |-> FALSE, company |-> FALSE]}
        \cup [keyword : DOMAIN PATTERNS, starts : BOOLEAN, company : BOOLEAN]

\* word in nama
NameContains(word, nama) ==
    \/ word = nama.keyword /\ word # ""
    \/ word = "UNIV" /\ nama.keyword = "UNIVERSITAS"

ClassifierBandwidthDomain ==
    {0, 500, Mbps(20), Mbps(50), Mbps(100), Mbps(101), Mbps(600), Mbps(2000)}

\* None, or the pattern of the keyword with its boosted confidence.
recognize_pattern(nama) ==
    IF nama.keyword = "" THEN [matched |-> FALSE, segmen |-> "", confidence |-> 0]
    ELSE LET weight == PATTERNS[nama.keyword].confidence_weight
             started == IF nama.starts THEN Min(99, weight + 5) ELSE weight
             boosted == IF nama.company THEN Min(99, started + 3) ELSE started
         IN  [matched |-> TRUE, segmen |-> PATTERNS[nama.keyword].segmen,
              confidence |-> boosted]

_determine_bandwidth_cluster(segmen, bandwidth_mbps, nama) ==
    IF bandwidth_mbps = 0 THEN "NO_BANDWIDTH"
    ELSE IF segmen = "SELULAR OPERATOR PROVIDER"
    THEN (IF bandwidth_mbps > Mbps(500) THEN "ENTERPRISE" ELSE "CORPORATE")
    ELSE IF segmen = "DATA COMM OPERATOR"
    THEN (IF bandwidth_mbps > Mbps(1000) THEN "ENTERPRISE" ELSE "CORPORATE")
    ELSE IF segmen = "BANKING & FINANCIAL"
    THEN (IF bandwidth_mbps > Mbps(100) THEN "CORPORATE" ELSE "UMKM_SMALL")
    ELSE IF segmen = "GOVERNMENT"
    THEN (IF NameContains("KEMENTERIAN", nama) \/ NameContains("GUBERNUR", nama) THEN "CORPORATE"
          ELSE IF NameContains("DINAS", nama)
          THEN (IF bandwidth_mbps > Mbps(50) THEN "CORPORATE" ELSE "UMKM_SMALL")
          ELSE "UMKM_SMALL")
    ELSE IF segmen \in {"EDUCATION_UNIV", "EDUCATION_SCHOOL"}
    THEN (IF NameContains("UNIVERSITAS", nama) \/ NameContains("UNIV", nama) THEN "CORPORATE"
          ELSE IF bandwidth_mbps > Mbps(50) THEN "CORPORATE"
          ELSE "UMKM_SMALL")
    ELSE IF segmen = "HEALTH CARE"
    THEN (IF NameContains("RUMAH SAKIT", nama) /\ bandwidth_mbps > Mbps(50) THEN "CORPORATE"
          ELSE "UMKM_SMALL")
    ELSE IF segmen \in {"MANUFACTURE", "ENERGY UTILITY MINING"}
    THEN (IF bandwidth_mbps > Mbps(500) THEN "ENTERPRISE" ELSE "CORPORATE")
    ELSE IF segmen = "TRANSPORTATION"
    THEN (IF NameContains("KERETA API", nama) \/ NameContains("BANDAR UDARA", nama) THEN "ENTERPRISE"
          ELSE "CORPORATE")
    ELSE IF segmen = "NATURAL RESOURCES"
    THEN (IF bandwidth_mbps > Mbps(100) THEN "CORPORATE" ELSE "UMKM_SMALL")
    ELSE IF segmen = "RETAIL DISTRIBUTION"
    THEN (IF bandwidth_mbps > Mbps(100) THEN "CORPORATE" ELSE "UMKM_SMALL")
    ELSE IF segmen = "HOSPITALITY"
    THEN (IF bandwidth_mbps > Mbps(50) THEN "CORPORATE" ELSE "UMKM_SMALL")
    \* Default: bandwidth-based only
    ELSE IF bandwidth_mbps < Mbps(1) THEN "ATM_IOT"
    ELSE IF bandwidth_mbps <= Mbps(20) THEN "UMKM_SMALL"
    ELSE IF bandwidth_mbps <= Mbps(500) THEN "CORPORATE"
    ELSE "ENTERPRISE"

\* kuadran, strategi, nbo[:5]
Quadrant(kuadran, strategi, nbo) ==
    <<kuadran, strategi, SubSeq(nbo, 1, Min(5, Len(nbo)))>>

_determine_quadrant_and_nbo(segmen, cluster, bandwidth_mbps, nama) ==
    IF str_contains(segmen, "BANKING") \/ segmen = "BANKING & FINANCIAL"
    THEN (IF cluster = "CORPORATE"
          THEN (IF bandwidth_mbps > Mbps(100)
                THEN Quadrant("[BANK] BANK CORPORATE HIGH",
                              "UPSELL + SECURITY: Digital Banking Infrastructure",
                              <<"Upgrade to Managed SD-WAN", "DDoS Protection Service", "Cloud Backup & Recovery", "Managed Security Operations Center", "Digital Branch Solutions">>)
                ELSE Quadrant("[BANK] BANK BRANCH STANDARD",
                              "UPSELL: Branch Connectivity Enhancement",
                              <<"Upgrade bandwidth untuk cabang", "ATM Network Optimization", "Secure VPN Expansion">>))
          ELSE IF cluster = "ENTERPRISE"
          THEN Quadrant("[BANK] BANKING PREMIUM",
                        "RETENTION + PREMIUM: Core Banking Infrastructure",
                        <<"Dedicated Backbone Connection", "Redundancy & Failover", "Private Cloud Infrastructure", "24/7 Premium SLA">>)
          \* no other cluster is handled: the initial values are returned
          ELSE Quadrant("None", "None", <<>>))
    ELSE IF str_contains(segmen, "EDUCATION")
    THEN (IF NameContains("SMK", nama) \/ NameContains("SMA", nama)
          THEN Quadrant("SEKOLAH MENENGAH",
                        "UPSELL: Digital Learning Infrastructure",
                        <<"Campus-wide WiFi Management", "E-Learning Platform Support", "Digital Library Connection", "Video Conference Setup">>)
          ELSE IF NameContains("UNIVERSITAS", nama) \/ NameContains("UNIV", nama)
          THEN Quadrant("UNIVERSITAS RESEARCH",
                        "CROSS-SELL: Research & Education Solutions",
                        <<"Dedicated Research Internet", "High-performance Computing Connection", "International Eduroam", "Smart Campus Platform">>)
          ELSE Quadrant("INSTITUSI PENDIDIKAN",
                        "EDUKASI: Digital Transformation",
                        <<"Basic Connectivity Upgrade", "School Management System", "Digital Content Platform">>))
    ELSE IF segmen = "GOVERNMENT"
    THEN (IF NameContains("KEMENTERIAN", nama)
          THEN Quadrant("[GOV] KEMENTERIAN LEVEL",
                        "CROSS-SELL: National Infrastructure",
                        <<"AP2T Integration", "National Data Center Connection", "Smart Government Platform", "Secure Inter-ministry Network">>)
          ELSE IF NameContains("DINAS", nama)
          THEN Quadrant("[GOV] DINAS LOKAL",
                        "CROSS-SELL: Smart City Solutions",
                        <<"E-Government Platform", "Public Service Optimization", "Regional Data Integration", "Smart City Infrastructure">>)
          ELSE Quadrant("[GOV] INSTANSI PEMERINTAH",
                        "EDUKASI: Digital Services",
                        <<"Public WiFi Services", "Digital Document Management", "Online Service Portal">>))
    ELSE IF segmen = "HEALTH CARE"
    THEN (IF NameContains("RUMAH SAKIT", nama) \/ bandwidth_mbps > Mbps(50)
          THEN Quadrant("[HOSPITAL] RUMAH SAKIT BESAR",
                        "CROSS-SELL: Healthcare Digitalization",
                        <<"Hospital Information System (HIS)", "Telemedicine Platform", "Medical IoT Integration", "PACS (Medical Imaging)", "Secure Healthcare Network">>)
          ELSE Quadrant("[HOSPITAL] KLINIK/PUSKESMAS",
                        "UPSELL: Healthcare Connectivity",
                        <<"Reliable Internet for Telemedicine", "Cloud-based Medical Records", "Video Consultation Setup">>))
    ELSE IF segmen = "SELULAR OPERATOR PROVIDER"
    THEN Quadrant("[SAT] TELCO INFRASTRUCTURE",
                  "RETENTION + OPTIMIZATION: Network Backbone",
                  <<"MetroNet Expansion", "Dark Fiber Leasing", "IP Transit Optimization", "5G Backhaul Infrastructure", "Network Monitoring Services">>)
    ELSE IF segmen = "TRANSPORTATION"
    THEN (IF NameContains("KERETA API", nama) \/ NameContains("BANDAR UDARA", nama)
          THEN Quadrant("INFRASTRUKTUR TRANSPORTASI",
                        "CROSS-SELL: Smart Transportation",
                        <<"IoT Fleet Management", "Real-time Passenger Info System", "Secure Control Network", "Smart Ticketing Platform">>)
          ELSE Quadrant("OPERATOR TRANSPORTASI",
                        "DIGITALISASI: Transport Services",
                        <<"Fleet Tracking System", "Online Booking Platform", "Customer WiFi Services">>))
    ELSE IF segmen \in {"MANUFACTURE", "ENERGY UTILITY MINING", "NATURAL RESOURCES"}
    THEN (IF cluster = "ENTERPRISE"
          THEN Quadrant("[FACTORY] INDUSTRI 4.0",
                        "CROSS-SELL: Smart Factory Solutions",
                        <<"Industrial IoT Platform", "Smart Manufacturing Network", "Predictive Maintenance System", "Secure OT-IT Integration", "Private 5G for Industry">>)
          ELSE Quadrant("[FACTORY] PABRIK MENENGAH",
                        "UPSELL: Industrial Connectivity",
                        <<"Reliable Production Network", "CCTV & Security System", "ERP System Connectivity">>))
    ELSE IF segmen = "RETAIL DISTRIBUTION"
    THEN Quadrant("RETAIL DISTRIBUTION",
                  "DIGITAL: Supply Chain Solutions",
                  <<"Supply Chain Visibility", "Multi-branch Connectivity", "POS System Integration", "Warehouse Management System">>)
    ELSE IF segmen = "HOSPITALITY"
    THEN Quadrant("HOSPITALITY",
                  "GUEST EXPERIENCE: Digital Hospitality",
                  <<"Premium Guest WiFi", "Smart Room Solutions", "Hotel Management System", "Digital Concierge Platform">>)
    ELSE IF segmen = "UMKM & RETAIL"
    THEN Quadrant("UMKM DIGITAL",
                  "EDUKASI: Digital Business Enablement",
                  <<"Basic Business Internet", "Online Presence Support", "Digital Payment Integration", "Social Media Marketing Tools">>)
    \* Default berdasarkan cluster
    ELSE IF cluster = "NO_BANDWIDTH"
    THEN Quadrant("[BRIEFCASE] NON-BW SERVICES",
                  "CROSS-SELL: Add Connectivity",
                  <<"Basic Internet Package", "Managed Service Add-on">>)
    ELSE IF cluster = "ATM_IOT"
    THEN Quadrant("[SAT] ATM/IoT DEVICES",
                  "MAINTENANCE: Reliability",
                  <<"Ensure SLA compliance", "Monitoring Services">>)
    ELSE IF cluster = "UMKM_SMALL"
    THEN Quadrant("UMKM/SMALL",
                  "GROWTH: Upgrade to Corporate",
                  <<"Bandwidth Upgrade", "Basic Security Package">>)
    ELSE IF cluster = "CORPORATE"
    THEN Quadrant("[OFFICE] CORPORATE STANDARD",
                  "UPSELL + CROSS-SELL",
                  <<"Bandwidth Upgrade", "Managed Services", "Security">>)
    ELSE Quadrant("[OFFICE] ENTERPRISE PREMIUM",
                  "RETENTION + OPTIMIZATION",
                  <<"Premium SLA", "Optimization Services", "Consulting">>)

\* classify(nama_pelanggan, segmencustomer, bandwidth_mbps)
classify ==
    /\ pc = "classify"
    /\ LET nama == company.nama_pelanggan
           segmencustomer == company.segmencustomer
           pattern_result == recognize_pattern(nama)
           _is_segmen_compatible(pattern_segmen, data_segmen) ==
               \/ str_contains(pattern_segmen, "EDUCATION") /\ str_contains(data_segmen, "EDUCATION")
               \/ str_contains(pattern_segmen, "BANKING") /\ str_contains(data_segmen, "BANKING")
               \/ pattern_segmen = data_segmen
           resolution ==
               IF pattern_result.matched /\ pattern_result.confidence >= 85
               THEN <<pattern_result.segmen, pattern_result.confidence, "pattern_override">>
               ELSE IF pattern_result.matched /\ pattern_result.confidence >= 70
               THEN (IF _is_segmen_compatible(pattern_result.segmen, segmencustomer)
                     THEN <<segmencustomer, pattern_result.confidence, "hybrid_agreement">>
                     ELSE <<pattern_result.segmen, pattern_result.confidence - 10,
                            "pattern_priority_conflict">>)
               ELSE <<segmencustomer, 60, "segmen_only">>
           final_segmen == resolution[1]
           cluster == _determine_bandwidth_cluster(final_segmen, company.bandwidth_mbps, nama)
           hasil == _determine_quadrant_and_nbo(final_segmen, cluster,
                                                company.bandwidth_mbps, nama)
       IN  strategy' = [segmen_final |-> final_segmen,
                        confidence |-> resolution[2],
                        classification_method |-> resolution[3],
                        bandwidth_cluster |-> cluster,
                        kuadran |-> hasil[1],
                        strategi |-> hasil[2],
                        nbo |-> hasil[3]]
    /\ pc' = "classified"
    /\ UNCHANGED <<variant, has_kategori, df, cluster_thresholds, sales_vars, run_vars>>
    /\ UNCHANGED <<company, product, co_occurrence, total_companies, score_factors, score>>
    /\ UNCHANGED <<products, top3, recommendations>>

InitClassify ==
    /\ company \in [nama_pelanggan : NameDomain, segmencustomer : SegmentDomain,
                    bandwidth_mbps : ClassifierBandwidthDomain]
    /\ strategy = <<>>
    /\ MatrixUnused /\ pc = "classify"
    /\ product = <<>> /\ co_occurrence = <<>> /\ total_companies = 0
    /\ score_factors = <<>> /\ score = 0
    /\ products = <<>> /\ top3 = <<>> /\ recommendations = <<>>
    /\ SalesUnused /\ RunUnused

NextClassify == classify

SpecClassify == InitClassify /\ [][NextClassify]_vars

\* C30: classify returns a quadrant, a strategy and at least one offer for
\* every final segment, bandwidth and bandwidth cluster.
C30_ClassifyAlwaysRecommends ==
    pc = "classified" =>
        /\ strategy.kuadran # "None"
        /\ strategy.strategi # "None"
        /\ strategy.nbo # <<>>


----------------------------------------------------------------------------
(* The rationale of a recommendation (generate_reasoning in process_data)  *)

\* The reason r is part of the rationale of a slot.
HasReason(slot, r) == \E i \in DOMAIN slot.Reasoning : slot.Reasoning[i] = r

\* C28: a reason is in the rationale of a recommendation only if its factor
\* gave the (customer, product) pair more than the factor's lowest credit (the
\* compliance reason only when the industry factor gave more than 5, the
\* category reason only when the category factor gave more than 5), and a
\* co-occurrence factor that added to the score is reflected by its reason.
C28_ReasonsFollowTheFactors ==
    \A m \in 1..Len(recommendations) :
        \A k \in 1..Len(recommendations[m].top3) :
            LET c == CompanyData(df, recommendations[m].nama)
                p == recommendations[m].top3[k][1]
                slot == recommendations[m].NBO[k]
            IN  /\ HasReason(slot, "Compliance penting untuk sektor") => industry_credit(c, p) > 5
                /\ HasReason(slot, "Melengkapi layanan") => category_credit(c, p) > 5
                /\ (c.current_products # <<>>
                      /\ cooccurrence_credit(c, p, co_occurrence, total_companies) > 0)
                       => HasReason(slot, "Pelanggan serupa juga membeli produk ini")

====
